---- MODULE Spec2Model ----
(***************************************************************************)
(* A model of the simulation engine of Mk.03-Rust-CivilizationSimulator:   *)
(* the tick scheduler (simulation/mod.rs), the science/space victory race  *)
(* (systems/victory.rs), the nation population / territory bookkeeping     *)
(* (systems/{civilization,warfare,environment,demography,events,cosmic})   *)
(* and the hex grid (mod.rs seed_grid, systems/{territory,flood}).         *)
(*                                                                         *)
(* Floating point values are modelled in fixed point; the unit of every    *)
(* quantity is stated where it is defined.  Draws of the per-tick PRNGs    *)
(* (SmallRng seeded from the tick) are modelled as nondeterministic        *)
(* choices over small sets of the values the draw can produce.             *)
(***************************************************************************)
EXTENDS Integers, Sequences, FiniteSets, TLC

\* ------------------------------------------------------------------ basics

Nations == {"Tera", "Sora", "Aqua", "Solar", "Luna"}

Min(a, b) == IF a < b THEN a ELSE b
Max(a, b) == IF a > b THEN a ELSE b
Clamp(x, lo, hi) == Min(Max(x, lo), hi)

\* The elements of a sequence.
Range(s) == {s[i] : i \in 1..Len(s)}

VARIABLES
    \* --- SimulationWorld::tick and the schedule (simulation/mod.rs)
    tick,          \* WorldTime.tick
    calls,         \* number of tick() calls made so far
    pc,            \* position inside tick(): "idle" or "schedule"
    runs,          \* per system, how often it ran in the current schedule run
    snapshotTick,  \* ObserverSnapshot.tick as last published
    \* --- ScienceVictory resource (simulation/resources.rs)
    tracker,
    \* --- AllNationMetrics / AllNationCivState (simulation/resources.rs)
    metrics,
    civ,
    npc,           \* position inside one tick of the nation pipeline
    extinction_events,  \* CosmicTimeline.extinction_events
    \* --- hex entities (simulation/grid.rs)
    hexes,         \* the components of the spawned hex entities
    gpc,           \* position inside one tick of the grid systems
    \* --- WorldEventLog (simulation/events.rs)
    events,        \* WorldEventLog.events, oldest first
    capacity,      \* WorldEventLog.capacity
    \* --- the bounded history series (resources.rs)
    histories,     \* per series, its samples, oldest first
    hpc,           \* position inside one tick of the history writers
    \* --- NuclearBlasts and the InCombat components (resources.rs, components.rs)
    blasts,        \* NuclearBlasts.0: coordinate -> decay timer
    in_combat,     \* per hex entity carrying InCombat, its ticks_remaining
    wpc,           \* position inside one tick of the technology / warfare systems
    \* --- DiplomaticRelations (resources.rs)
    diplo,
    \* --- the simulation task and the shutdown path of main (main.rs)
    lpc,           \* the task: "loop", "select", "ticking" (inside tick()), "exited"
    paused,        \* the loop's local `paused`
    waiter,        \* the Notified future of the current select!: "none", "waiting", "notified"
    watch,         \* per watch channel whether a value is unseen; the pause value
    mpc,           \* main: "ui", "clone" (holding the read guard), "panicked",
                   \* "shutdown", "await", "done"
    ctrl_c,        \* whether ctrl_c_task has finished
    skipped,       \* whether the last timer firing found the loop paused
    \* --- CosmicTimeline and the shared ObserverSnapshot (resources.rs, observer.rs)
    cosmic,        \* cosmic_age_years and timescale_years_per_tick, in 1000 years
    snapshot,      \* the ObserverSnapshot behind the RwLock
    view,          \* the consumer's last clone: <<>> before the first, then <<clone>>
    olock,         \* the RwLock: writer held, readers, write acquisitions of this tick()
    poisoned,      \* whether the RwLock is poisoned
    finished,      \* the world as it stood at the end of each tick() so far
    \* --- SimulationConfig (resources.rs 304-319)
    config,        \* grid_radius and years_per_tick (in 1000 years)
    \* --- the Combatants components and the battle loop of warfare_system
    combatants,    \* per hex entity carrying Combatants, its <<nation_a, nation_b>>
    fought,        \* per battle of the last warfare run, what the loop read of
                   \* the two sides when it resolved the battle
    \* --- WarFatigue (resources.rs 112-116)
    fatigue,       \* WarFatigue.intensity in 1e-2
    fallout,       \* NuclearBlasts.0 as it stood when the current tick began
    \* --- the NPC entities (mod.rs 426-505) and the systems that write Behavior
    behavior,      \* per entity, Behavior.state
    threshold,     \* per entity, the threshold the last AI run drew (in 1e-4)
    tilted,        \* whether an AI run has used an epoch or season modifier
                   \* other than 1.0
    epc,           \* position inside one tick of the systems that write Behavior
    \* --- WorldBlocs (blocs.rs 22-25)
    world_blocs    \* WorldBlocs.blocs: kind -> Bloc

schedVars == <<calls, pc, runs, snapshotTick>>
nationVars == <<metrics, civ, npc, extinction_events>>
gridVars == <<hexes, gpc>>
logVars == <<events, capacity>>
\* the resources the scheduler, victory, nation and grid steps below leave alone
histVars == <<histories, hpc>>
warVars == <<blasts, in_combat, wpc>>
loopVars == <<lpc, paused, waiter, watch, mpc, ctrl_c, skipped>>
obsVars == <<cosmic, snapshot, view, olock, poisoned, finished>>
\* the late resources but WarFatigue, which extinction_system resets
mindVars == <<behavior, threshold, tilted, epc>>
apartVars == <<mindVars, world_blocs>>
calmVars == <<diplo, loopVars, obsVars, config, combatants, fought, fallout, apartVars>>
lateVars == <<calmVars, fatigue>>
\* what the simulation task's select! and main's control flow leave alone
engineVars == <<diplo, logVars, histVars, warVars, schedVars, tracker, nationVars,
                gridVars, config, combatants, fought, fatigue, fallout, apartVars>>
restVars == <<logVars, histVars, warVars, lateVars>>
vars == <<tick, calls, pc, runs, snapshotTick, tracker, metrics, civ, npc,
          extinction_events, hexes, gpc, events, capacity, histories, hpc,
          blasts, in_combat, wpc, diplo, lpc, paused, waiter, watch, mpc, ctrl_c,
          skipped, cosmic, snapshot, view, olock, poisoned, finished, config,
          combatants, fought, fatigue, fallout, behavior, threshold, tilted, epc,
          world_blocs>>

\* ------------------------------------------------- the schedule (mod.rs)

\* schedule.add_systems((...).chain()) #1: the "Phase-1" chain.
Phase1Chain ==
    << "cosmic_time_system", "ai_state_transition_system",
       "combat_cleanup_system", "economy_system", "environment_system",
       "civilization_system", "technology_system", "warfare_system",
       "science_victory_system", "climate_system", "nuclear_decay_system",
       "peace_recovery_system" >>

\* schedule.add_systems((...).chain()) #2: the "Phase-2" chain.
Phase2Chain ==
    << "richness_overlay_system", "climate_impact_system", "flood_system",
       "supply_chain_system", "bloc_system", "war_fatigue_system",
       "territory_system", "cycle_system", "security_system",
       "demography_system", "event_generation_system", "ideology_system",
       "mission_system", "diplomacy_system", "logging_system" >>

\* schedule.add_systems(extinction_system): registered on its own.
Unchained == {"extinction_system"}

Systems == Range(Phase1Chain) \cup Range(Phase2Chain) \cup Unchained

\* .chain() orders each system of a tuple after the one written before it.
\* Nothing orders a system of one add_systems call against a system of
\* another call.
ChainEdges(chain) == {<<chain[i], chain[i + 1]>> : i \in 1..(Len(chain) - 1)}

OrderingConstraints_Phase2Only == ChainEdges(Phase2Chain)
OrderingConstraints == ChainEdges(Phase1Chain) \cup ChainEdges(Phase2Chain)

\* A system may start once every system ordered before it has run.
Ready(s) ==
    /\ runs[s] = 0
    /\ \A e \in OrderingConstraints : e[2] = s => runs[e[1]] > 0

\* time.tick += 1
AdvanceTick_Twice(t) == t + 2
AdvanceTick(t) == t + 1

MaxTicks == 3

NoRuns == [s \in Systems |-> 0]

\* --------------------------------- science victory (systems/victory.rs)
\* Progress, goals and momentum are in units of 1e-4 (100.0 is 1 000 000).
\* Nation metrics read by the race are whole numbers of their own unit.

ProgressUnit == 100 * 100

\* ScienceVictory::default: goal, mars_goal, jovian_goal, interstellar_goal
Goal == 100 * ProgressUnit
MarsGoal == 100 * ProgressUnit
JovianGoal == 100 * ProgressUnit
InterstellarGoal == 100 * ProgressUnit

Eras == {"Dawn", "Ancient", "Classical", "Medieval", "Industrial", "Modern", "Nuclear"}

\* ScienceVictory::default()
TrackerDefault ==
    [ progress |-> [n \in Nations |-> 0],
      milestones |-> [n \in Nations |-> 0],
      finished |-> FALSE,
      winner |-> "None",
      interstellar_mode |-> FALSE,
      interstellar_progress |-> 0,
      space_stage |-> "Moon",
      mars_progress |-> 0,
      mars_done |-> FALSE,
      jovian_progress |-> 0,
      jovian_done |-> FALSE,
      moon_done |-> FALSE ]

\* match metrics.era { ... } in percent
EraBonus(era) ==
    CASE era = "Dawn" -> 80
      [] era = "Ancient" -> 90
      [] era = "Classical" -> 100
      [] era = "Medieval" -> 105
      [] era = "Industrial" -> 112
      [] era = "Modern" -> 120
      [] era = "Nuclear" -> 135

\* (metrics.population as f32 / 5_000_000.0).clamp(0.35, 2.3), in percent
PopulationFactor(population) == Clamp(population \div 50000, 35, 230)

\* (metrics.diplomacy * 0.006 + metrics.culture * 0.004).min(4.0)
DiplomacyBonus(m) == Min(m.diplomacy * 60 + m.culture * 40, 4 * ProgressUnit)

\* (1.0 - (100.0 - metrics.military).max(0.0) * 0.0009).max(0.6), in 1e-4
ConflictFactor(m) == Max(10000 - Max(100 - m.military, 0) * 9, 6000)

\* bloc_system: strength = (total_science * 0.01 + total_econ * 0.005).min(10.0)
\* summed over the live members, in 1e-4
RECURSIVE MemberTotals(_, _)
MemberTotals(members, ms) ==
    IF members = {} THEN 0
    ELSE LET n == CHOOSE x \in members : TRUE
             share == IF ms[n].is_destroyed THEN 0
                      ELSE ms[n].science * 100 + ms[n].economy * 50
         IN share + MemberTotals(members \ {n}, ms)

BlocStrength(members, ms) == Min(MemberTotals(members, ms), 10 * ProgressUnit)

\* bloc.strength * 0.3 for a ResearchPact member, else 0
BlocBonus(n, blocs) ==
    IF n \in blocs.research.members THEN (blocs.research.strength * 3) \div 10 ELSE 0

\* bloc.strength * 0.2 for a Sanction member, else 0
EmbargoDrag(n, blocs) ==
    IF n \in blocs.sanction.members THEN (blocs.sanction.strength * 2) \div 10 ELSE 0

\* momentum = (science*0.042 + economy*0.012 + culture*0.007
\*             + research_stock*0.0025 + diplomacy_bonus + bloc_bonus
\*             - embargo_drag) * era_bonus * (1 - conflict_drag).max(0.6)
Momentum(n, m, blocs) ==
    LET base == m.science * 420 + m.economy * 120 + m.culture * 70
                + m.research_stock * 25 + DiplomacyBonus(m)
                + BlocBonus(n, blocs) - EmbargoDrag(n, blocs)
    IN ((((base * EraBonus(m.era)) \div 100) \div 100) * ConflictFactor(m)) \div 100

\* progress_gain = momentum * population_factor * 0.01
ProgressGain(n, m, blocs) ==
    (Momentum(n, m, blocs) * PopulationFactor(m.population)) \div 10000

\* *entry = (*entry + progress_gain).min(goal)
AccrueProgress_NoCap(p, gain) == p + gain
AccrueProgress(p, gain) == Min(p + gain, Goal)

\* the nations the Moon loop does not skip
Racing(ms) == {n \in Nations : ~ms[n].is_destroyed /\ ms[n].population # 0}

\* Moon phase, lines 18-128.  `first` is the nation the map iteration meets
\* first among those with the highest progress (HashMap order is arbitrary;
\* a later nation replaces the leader only with a strictly higher value).
MoonPhase(tr, ms, blocs, first) ==
    LET racing == Racing(ms)
        now == [n \in Nations |->
                   IF n \in racing
                   THEN AccrueProgress(tr.progress[n], ProgressGain(n, ms[n], blocs))
                   ELSE tr.progress[n]]
        stones == [n \in Nations |->
                   IF n \in racing /\ tr.milestones[n] < 4
                      /\ now[n] >= (tr.milestones[n] + 1) * 25 * ProgressUnit
                   THEN tr.milestones[n] + 1
                   ELSE tr.milestones[n]]
        won == racing # {} /\ now[first] >= Goal
    IN [tr EXCEPT !.progress = now,
                  !.milestones = stones,
                  !.moon_done = won,
                  !.winner = IF won THEN first ELSE tr.winner,
                  !.space_stage = IF won THEN "Mars" ELSE tr.space_stage]

\* the nations `first` can be: the racing nations of highest progress
Leaders_AnyRacer(tr, ms, blocs) ==
    IF Racing(ms) = {} THEN {"None"} ELSE Racing(ms)
Leaders(tr, ms, blocs) ==
    LET racing == Racing(ms)
        now(n) == AccrueProgress(tr.progress[n], ProgressGain(n, ms[n], blocs))
    IN IF racing = {} THEN {"None"}
       ELSE {n \in racing : \A o \in racing : now(o) <= now(n)}

\* Mars phase, lines 129-147
MarsPhase_SkipsJovian(tr) ==
    LET p == Min(tr.mars_progress + 4000 + (tr.mars_progress * 9) \div (MarsGoal \div 1000),
                 MarsGoal)
    IN IF p >= MarsGoal
       THEN [tr EXCEPT !.mars_progress = p, !.mars_done = TRUE,
                       !.space_stage = "Interstellar", !.interstellar_mode = TRUE]
       ELSE [tr EXCEPT !.mars_progress = p]
MarsPhase(tr) ==
    LET p == Min(tr.mars_progress + 4000 + (tr.mars_progress * 9) \div (MarsGoal \div 1000),
                 MarsGoal)
    IN IF p >= MarsGoal
       THEN [tr EXCEPT !.mars_progress = p, !.mars_done = TRUE,
                       !.space_stage = "Jovian"]
       ELSE [tr EXCEPT !.mars_progress = p]

\* Jovian phase, lines 148-167
JovianPhase_Stalls(tr) ==
    LET p == Min(tr.jovian_progress
                 + (tr.jovian_progress * 8) \div (JovianGoal \div 1000), JovianGoal)
    IN IF p >= JovianGoal
       THEN [tr EXCEPT !.jovian_progress = p, !.jovian_done = TRUE,
                       !.space_stage = "Interstellar", !.interstellar_mode = TRUE]
       ELSE [tr EXCEPT !.jovian_progress = p]
JovianPhase(tr) ==
    LET p == Min(tr.jovian_progress + 3500
                 + (tr.jovian_progress * 8) \div (JovianGoal \div 1000), JovianGoal)
    IN IF p >= JovianGoal
       THEN [tr EXCEPT !.jovian_progress = p, !.jovian_done = TRUE,
                       !.space_stage = "Interstellar", !.interstellar_mode = TRUE]
       ELSE [tr EXCEPT !.jovian_progress = p]

\* Interstellar phase, lines 168-197
InterstellarPhase(tr) ==
    LET p == Min(tr.interstellar_progress + 6000
                 + (tr.interstellar_progress * 8) \div (InterstellarGoal \div 1000),
                 InterstellarGoal)
    IN IF p >= InterstellarGoal
       THEN [tr EXCEPT !.interstellar_progress = p, !.interstellar_mode = FALSE,
                       !.finished = TRUE]
       ELSE [tr EXCEPT !.interstellar_progress = p]

\* science_victory_system: the if / else-if chain over the phases
ScienceVictoryStep(tr, ms, blocs, first) ==
    IF ~tr.moon_done THEN MoonPhase(tr, ms, blocs, first)
    ELSE IF tr.space_stage = "Mars" THEN MarsPhase(tr)
    ELSE IF tr.space_stage = "Jovian" THEN JovianPhase(tr)
    ELSE IF tr.interstellar_mode THEN InterstellarPhase(tr)
    ELSE tr

\* refresh_observer_snapshot: leader_progress is the highest progress entry
LeaderProgress(tr) ==
    LET n == CHOOSE x \in Nations : \A o \in Nations : tr.progress[o] <= tr.progress[x]
    IN tr.progress[n]

\* ------------------------------------ nations (simulation/resources.rs)
\* Populations are persons; territory is in units of 1e-2 (33.33 is 3333).

\* floor(x * num / den) without leaving 32 bits
MulDiv(x, num, den) == (x \div den) * num + ((x % den) * num) \div den

\* u64::saturating_sub
SatSub(a, b) == IF a > b THEN a - b ELSE 0

\* NationMetrics::default()
NationMetricsDefault_EvenSplit ==
    [ economy |-> 50, science |-> 20, culture |-> 30, diplomacy |-> 30,
      military |-> 20, research_stock |-> 0, culture_stock |-> 0,
      era |-> "Dawn", weapon_tier |-> "KnappedStone",
      territory |-> 3333,
      population |-> 3000000, youth |-> 1000000, adult |-> 1000000,
      elder |-> 1000000,
      unlocked_techs |-> <<"Knapping">>,
      is_destroyed |-> FALSE ]
NationMetricsDefault ==
    [ economy |-> 50, science |-> 20, culture |-> 30, diplomacy |-> 30,
      military |-> 20, research_stock |-> 0, culture_stock |-> 0,
      era |-> "Dawn", weapon_tier |-> "KnappedStone",
      territory |-> 3333,
      population |-> 3000000, youth |-> 900000, adult |-> 1800000,
      elder |-> 300000,
      unlocked_techs |-> <<"Knapping">>,
      is_destroyed |-> FALSE ]

\* NationCivState::default(); happiness, stability and production in 1e-2
NationCivStateDefault ==
    [cities |-> 2, happiness |-> 6500, stability |-> 6000, production |-> 4000]

\* civilization_system on the civ state of a nation the metrics call destroyed
CivRuined(c) ==
    [c EXCEPT !.cities = 0, !.production = 0, !.happiness = 0, !.stability = 0]

\* lines 37-48: happiness moves stability, then both are clamped to 0..100
CivMood(c) ==
    [c EXCEPT !.happiness = Clamp(c.happiness, 0, 10000),
              !.stability = Clamp(IF c.happiness < 4000 THEN c.stability - 20
                                  ELSE IF c.happiness > 7500 THEN c.stability + 15
                                  ELSE c.stability, 0, 10000)]

\* lines 62-64: the war-weariness decay
CivCalm(c) == [c EXCEPT !.happiness = Clamp(c.happiness + 5, 0, 10000)]

\* AllNationMetrics::default() / AllNationCivState::default()
AllNationMetricsDefault == [n \in Nations |-> NationMetricsDefault]
AllNationCivStateDefault == [n \in Nations |-> NationCivStateDefault]

\* ---- civilization_system (systems/civilization.rs)
\* `founds` is the outcome of rng.gen_bool(chance) for this nation.
CivilizationNation(m, c, founds) ==
    IF m.is_destroyed
    THEN <<[m EXCEPT !.population = 0], CivRuined(c)>>
    ELSE LET growth == c.cities * 5000 + MulDiv(m.population, 5, 10000)
             grown == m.population + growth
             max_cities == (m.territory + 799) \div 800 + 1
         IN IF c.cities < max_cities /\ founds
            THEN <<[m EXCEPT !.population = grown + 120000],
                   CivCalm([CivMood(c) EXCEPT !.cities = c.cities + 1,
                                              !.production = c.production + 300,
                                              !.happiness = @ + 200])>>
            ELSE <<[m EXCEPT !.population = grown], CivCalm(CivMood(c))>>

\* ---- warfare_system (systems/warfare.rs)
\* One battle request after its rolls: winner, loser and the clamped
\* total_casualties.
WinnerCasualties(total) == MulDiv(total, 35, 100)

\* loser_metrics.territory -= territory_change, then .max(0.0)
LoserTerritory_Double(territory) == Max(territory - 100, 0)
LoserTerritory(territory) == Max(territory - 50, 0)

ResolveBattle(ms, cv, battle) ==
    LET w == battle.winner
        l == battle.loser
        wc == WinnerCasualties(battle.casualties)
        lc == SatSub(battle.casualties, wc)
        wm == [ms[w] EXCEPT !.territory = Max(ms[w].territory + 50, 0),
                            !.population = SatSub(ms[w].population, wc)]
        lt == LoserTerritory(ms[l].territory)
        lm == IF lt <= 0
              THEN [ms[l] EXCEPT !.territory = lt, !.is_destroyed = TRUE,
                                 !.population = 0]
              ELSE [ms[l] EXCEPT !.territory = lt,
                                 !.population = SatSub(ms[l].population, lc)]
        lcv == IF lt <= 0 THEN CivRuined(cv[l]) ELSE cv[l]
    IN <<[ms EXCEPT ![w] = wm, ![l] = lm], [cv EXCEPT ![l] = lcv]>>

\* "2. Process battles": the requests are resolved in the order they were pushed
RECURSIVE ProcessBattles(_, _, _)
ProcessBattles(ms, cv, requests) ==
    IF requests = <<>> THEN <<ms, cv>>
    ELSE LET after == ResolveBattle(ms, cv, Head(requests))
         IN ProcessBattles(after[1], after[2], Tail(requests))

\* "1. Identify potential battles": a pair can be requested when neither side
\* is destroyed (and both have military > 1.0, which the draw below covers).
Eligible(ms, a, b) == a # b /\ ~ms[a].is_destroyed /\ ~ms[b].is_destroyed

\* ---- climate_impact_system (systems/environment.rs)
\* A climate input is ClimateState as climate_system left it: sea_level and
\* ice_line in 1e-2, climate_risk in whole points.
\* land_loss_factor = (sea * 0.8 + (1.0 - ice) * 0.2).clamp(0.0, 1.0), in 1e-4
LandLossFactor(cl) == Clamp(cl.sea * 80 + (100 - cl.ice) * 20, 0, 10000)

\* m.territory = (m.territory * (0.98 - sea * 0.25)).max(5.0)
CoastalLoss_LowFloor(territory, cl) == Max((territory * (9800 - cl.sea * 25)) \div 10000, 200)
CoastalLoss(territory, cl) == Max((territory * (9800 - cl.sea * 25)) \div 10000, 500)

ClimateImpactNation(m, cl) ==
    IF m.is_destroyed THEN m
    ELSE LET llf == LandLossFactor(cl)
             habitability == Clamp(10000 - llf, 0, 10000)
             lost == CoastalLoss(m.territory, cl)
             pop == Max(MulDiv(m.population, 9990 - (llf * 8) \div 100, 10000), 10000)
             recovered == IF habitability > 8000 /\ cl.risk < 25
                          THEN Min(lost + 20, 12000) ELSE lost
         IN [m EXCEPT !.territory = recovered, !.population = pop]

\* lines 104-122: the civ state of a nation that is not destroyed
ClimateImpactCiv(m, c, cl) ==
    IF m.is_destroyed THEN c
    ELSE LET llf == LandLossFactor(cl)
             habitability == Clamp(10000 - llf, 0, 10000)
         IN [c EXCEPT
                !.happiness = Clamp(c.happiness - cl.risk * 4 - (llf * 12) \div 100
                                    + (habitability * 4) \div 100, 500, 13000),
                !.production = Clamp(MulDiv(c.production, 9950 - cl.sea * 8, 10000)
                                     + (habitability * 12) \div 1000, 0, 16000),
                !.stability = Clamp(c.stability - cl.risk * 3 - (llf * 8) \div 100,
                                    0, 14000)]

\* ---- demography_system (systems/demography.rs)
\* (x as f32 * k).round() for k given in 1e-4
RoundShare(x, k) == (x * k + 5000) \div 10000

DemographyNation(m) ==
    IF m.is_destroyed THEN m
    ELSE LET births == RoundShare(m.adult, 8)
             aging_youth == RoundShare(m.youth, 15)
             aging_adult == RoundShare(m.adult, 9)
             elder_mortality == RoundShare(m.elder, 25)
             youth == SatSub(m.youth + births, aging_youth)
             adult == SatSub(m.adult + aging_youth, aging_adult)
             elder == SatSub(m.elder + aging_adult, elder_mortality)
         IN [m EXCEPT !.youth = youth, !.adult = adult, !.elder = elder,
                      !.population = youth + adult + elder]

\* ---- event_generation_system (systems/events.rs), the population part
\* world.rs: economy.stressors
Stressors ==
    << "Drought Pressure", "Bandit Raid", "Currency Devaluation",
       "Relic Shortage", "Plague Spread" >>

\* stressor.contains("plague") || stressor.contains("disease"): the match is
\* case-sensitive, so no listed stressor has it.
MentionsPlague(stressor) ==
    CASE stressor = "Drought Pressure" -> FALSE
      [] stressor = "Bandit Raid" -> FALSE
      [] stressor = "Currency Devaluation" -> FALSE
      [] stressor = "Relic Shortage" -> FALSE
      [] stressor = "Plague Spread" -> FALSE

\* the macro shock of this tick: the plague die-off, split evenly
MacroShockNation(m, t, total) ==
    IF MentionsPlague(Stressors[(t % Len(Stressors)) + 1]) /\ ~m.is_destroyed
    THEN [m EXCEPT !.population = SatSub(m.population, total \div 5)]
    ELSE m

\* a pulse of the given severity (in 1e-3; 0 when the pulse does not fire)
\* that leaves at least `floor` persons
PulseNation(m, severity, floor) ==
    IF m.is_destroyed \/ severity = 0 THEN m
    ELSE LET loss == MulDiv(m.population, severity, 1000)
         IN [m EXCEPT !.population = Max(SatSub(m.population, loss), floor)]

\* catastrophic pulse (floor 10_000), then omega-level disaster (floor 1_000)
EventGenerationNation(m, t, ev) ==
    PulseNation(PulseNation(MacroShockNation(m, t, ev.plague), ev.catastrophe, 10000),
                ev.omega, 1000)

\* ---- extinction_system (systems/cosmic.rs)
\* `share` is (0.2 * severity).min(0.6) in 1e-2
ExtinctionNation(m, share) ==
    IF m.is_destroyed THEN m
    ELSE [m EXCEPT !.population = MulDiv(m.population, share, 100)]

\* lines 86-91, for every nation: s.cities = (s.cities as f32 * 0.3).max(1.0)
\* as u32, happiness = 45.0, production *= 0.25, stability = 40.0
ExtinctionCiv_KeepsMood(c) ==
    [c EXCEPT !.cities = Max((c.cities * 3) \div 10, 1),
              !.happiness = Min(c.happiness, 4500),
              !.production = c.production \div 4,
              !.stability = Min(c.stability, 4000)]
ExtinctionCiv(c) ==
    [c EXCEPT !.cities = Max((c.cities * 3) \div 10, 1),
              !.happiness = 4500,
              !.production = c.production \div 4,
              !.stability = 4000]

\* ----------------------------------------- the hex grid (mod.rs, grid.rs)
\* Elevations are in 1e-4, angles in 1e-3 degrees, sea and ice lines in 1e-2.

\* SimulationConfig.grid_radius
GridRadius == 4

Abs(x) == IF x < 0 THEN -x ELSE x

\* the closure axial_distance of seed_grid, and distance() of territory.rs
AxialDistance(q1, r1, q2, r2) ==
    (Abs(q1 - q2) + Abs(q1 + r1 - q2 - r2) + Abs(r1 - r2)) \div 2

\* let land_radius = (radius - 2).max(1)
LandRadius(radius) == Max(radius - 2, 1)

\* for q in -radius..=radius, for r in max(-radius, -q-radius)..=min(radius, -q+radius),
\* keeping the coordinates inside the land mask
LandCoords(radius) ==
    {c \in (-radius..radius) \X (-radius..radius) :
        /\ c[2] >= Max(-radius, -c[1] - radius)
        /\ c[2] <= Min(radius, -c[1] + radius)
        /\ AxialDistance(c[1], c[2], 0, 0) <= LandRadius(radius)}

\* For the coordinates within three steps of the origin: the wedge angle
\* ((r*sqrt(3)/2).atan2(q + r/2).to_degrees() + 360) % 360 and (angle / 72).sin(),
\* as f32 arithmetic gives them.
TrigTable ==
    { [q |-> -3, r |-> 0, angle |-> 180000, sin |-> 5985],
      [q |-> -3, r |-> 1, angle |-> 160893, sin |-> 7876],
      [q |-> -3, r |-> 2, angle |-> 139106, sin |-> 9355],
      [q |-> -3, r |-> 3, angle |-> 120000, sin |-> 9954],
      [q |-> -2, r |-> -1, angle |-> 199106, sin |-> 3674],
      [q |-> -2, r |-> 0, angle |-> 180000, sin |-> 5985],
      [q |-> -2, r |-> 1, angle |-> 150000, sin |-> 8715],
      [q |-> -2, r |-> 2, angle |-> 120000, sin |-> 9954],
      [q |-> -2, r |-> 3, angle |-> 100893, sin |-> 9857],
      [q |-> -1, r |-> -2, angle |-> 220893, sin |-> 736],
      [q |-> -1, r |-> -1, angle |-> 210000, sin |-> 2230],
      [q |-> -1, r |-> 0, angle |-> 180000, sin |-> 5985],
      [q |-> -1, r |-> 1, angle |-> 120000, sin |-> 9954],
      [q |-> -1, r |-> 2, angle |-> 90000, sin |-> 9490],
      [q |-> -1, r |-> 3, angle |-> 79106, sin |-> 8906],
      [q |-> 0, r |-> -3, angle |-> 240000, sin |-> -1906],
      [q |-> 0, r |-> -2, angle |-> 240000, sin |-> -1906],
      [q |-> 0, r |-> -1, angle |-> 240000, sin |-> -1906],
      [q |-> 0, r |-> 0, angle |-> 0, sin |-> 0],
      [q |-> 0, r |-> 1, angle |-> 60000, sin |-> 7402],
      [q |-> 0, r |-> 2, angle |-> 60000, sin |-> 7402],
      [q |-> 0, r |-> 3, angle |-> 60000, sin |-> 7402],
      [q |-> 1, r |-> -3, angle |-> 259106, sin |-> -4414],
      [q |-> 1, r |-> -2, angle |-> 270000, sin |-> -5716],
      [q |-> 1, r |-> -1, angle |-> 300000, sin |-> -8548],
      [q |-> 1, r |-> 0, angle |-> 0, sin |-> 0],
      [q |-> 1, r |-> 1, angle |-> 30000, sin |-> 4047],
      [q |-> 1, r |-> 2, angle |-> 40893, sin |-> 5379],
      [q |-> 2, r |-> -3, angle |-> 280893, sin |-> -6887],
      [q |-> 2, r |-> -2, angle |-> 300000, sin |-> -8548],
      [q |-> 2, r |-> -1, angle |-> 330000, sin |-> -9917],
      [q |-> 2, r |-> 0, angle |-> 0, sin |-> 0],
      [q |-> 2, r |-> 1, angle |-> 19106, sin |-> 2623],
      [q |-> 3, r |-> -3, angle |-> 300000, sin |-> -8548],
      [q |-> 3, r |-> -2, angle |-> 319106, sin |-> -9610],
      [q |-> 3, r |-> -1, angle |-> 340893, sin |-> -9998],
      [q |-> 3, r |-> 0, angle |-> 0, sin |-> 0] }

Trig(c) == CHOOSE t \in TrigTable : t.q = c[1] /\ t.r = c[2]

\* let sectors = [Tera, Sora, Aqua, Solar, Luna]
Sectors == <<"Tera", "Sora", "Aqua", "Solar", "Luna">>

\* ((angle + sector_size / 2.0) / sector_size).floor() as usize % sectors.len()
SectorIndex(angle) == ((angle + 36000) \div 72000) % Len(Sectors)

\* ((angle / 72.0).sin() * 0.3 + 0.7 + q * 0.02 + r * 0.02).clamp(0.1, 1.4)
SeedElevation(c) == Clamp((Trig(c).sin * 3) \div 10 + 7000 + c[1] * 200 + c[2] * 200, 1000, 14000)

SeedBiome(elevation) ==
    IF elevation < 3500 THEN "Market"
    ELSE IF elevation < 6000 THEN "Plains"
    ELSE IF elevation < 9000 THEN "Forest"
    ELSE "Village"

\* world.spawn((coord, Hex { owner, elevation, biome }))
SeedHex(c) ==
    [ coord |-> c,
      owner |-> Sectors[SectorIndex(Trig(c).angle) + 1],
      elevation |-> SeedElevation(c),
      biome |-> SeedBiome(SeedElevation(c)) ]

\* seed_grid: one entity per land coordinate
SeedGrid(radius) == {SeedHex(c) : c \in LandCoords(radius)}

\* pentagon_centers(radius), in the order of the array (radius >= 2 here, so
\* the truncating -r / 2 is -(r / 2))
PentagonCenters(radius) ==
    LET r == radius - 2
    IN << <<0, -r>>, <<r, -(r \div 2)>>, <<r, r \div 2>>, <<0, r>>, <<-r, 0>> >>

\* ---- territory_system (systems/territory.rs)
\* influence of capital i on the hex at c is at least that of capital j:
\* f32::MAX at distance 0, territory / dist^2 otherwise
InfluenceAtLeast(c, ms, radius, i, j) ==
    LET ci == PentagonCenters(radius)[i]
        cj == PentagonCenters(radius)[j]
        di == AxialDistance(c[1], c[2], ci[1], ci[2])
        dj == AxialDistance(c[1], c[2], cj[1], cj[2])
    IN IF di = 0 THEN TRUE
       ELSE IF dj = 0 THEN FALSE
       ELSE ms[Sectors[i]].territory * dj * dj >= ms[Sectors[j]].territory * di * di

\* the capitals are visited in array order and only a strictly greater
\* influence replaces the owner: the first capital of highest influence wins
NewOwner(c, ms, radius) ==
    LET best == {i \in 1..Len(Sectors) :
                    \A j \in 1..Len(Sectors) : InfluenceAtLeast(c, ms, radius, i, j)}
        first == CHOOSE i \in best : \A k \in best : i <= k
    IN Sectors[first]

TerritorySystem(hs, ms, radius) ==
    {[h EXCEPT !.owner = NewOwner(h.coord, ms, radius)] : h \in hs}

\* ---- flood_system (systems/flood.rs)
\* norm_y = 0.5 + r / (radius * 2 + 1), compared with a line given in 1e-2
NormYAbove(r, radius, line) == 50 * (radius * 2 + 1) + 100 * r > line * (radius * 2 + 1)
NormYBelow(r, radius, line) == 50 * (radius * 2 + 1) + 100 * r < line * (radius * 2 + 1)

Submerged(h, cl, radius) ==
    h.elevation < (cl.sea + 10) * 100 /\ NormYAbove(h.coord[2], radius, cl.sea)

FloodHex(h, cl, radius) ==
    LET soaked == IF Submerged(h, cl, radius) THEN "Market" ELSE h.biome
    IN [h EXCEPT !.biome = IF NormYBelow(h.coord[2], radius, cl.ice)
                            THEN "Desert" ELSE soaked]

FloodSystem_DropsSubmerged(hs, cl, radius) ==
    {FloodHex(h, cl, radius) : h \in {x \in hs : ~Submerged(x, cl, radius)}}
FloodSystem(hs, cl, radius) == {FloodHex(h, cl, radius) : h \in hs}

\* ------------------------------------ the event log (simulation/events.rs)

\* WorldEventLog::default(): Self::new(256)
DefaultLogCapacity == 256

\* A WorldEvent: tick and kind, and of the payload the fields the systems
\* below read back: the nation (winner, leader), its rival (loser), the
\* casualties and the nuclear flag of a Warfare event.
WorldEvent(t, kind, nation, rival, casualties, nuclear) ==
    [ tick |-> t, kind |-> kind, nation |-> nation, rival |-> rival,
      casualties |-> casualties, nuclear |-> nuclear ]

\* WorldEvent::social and the like: an event without a Warfare payload
PlainEvent(t, kind, nation) == WorldEvent(t, kind, nation, "None", 0, FALSE)

\* VecDeque::pop_front: nothing happens on an empty queue
PopFront(q) == IF q = <<>> THEN q ELSE Tail(q)

\* WorldEventLog::push
WorldEventLogPush(log, cap, event) ==
    Append(IF Len(log) = cap THEN PopFront(log) ELSE log, event)

\* pushing a sequence of events one after the other
RECURSIVE PushAll(_, _, _)
PushAll(log, cap, evs) ==
    IF evs = <<>> THEN log
    ELSE PushAll(WorldEventLogPush(log, cap, Head(evs)), cap, Tail(evs))

\* ------------------------- technology (technology.rs, systems/technology.rs)
\* research_stock and culture_stock are whole points, rounded down.

\* Era::next; "None" is Option::None
EraNext_Wraps(era) ==
    CASE era = "Dawn" -> "Ancient"
      [] era = "Ancient" -> "Classical"
      [] era = "Classical" -> "Medieval"
      [] era = "Medieval" -> "Industrial"
      [] era = "Industrial" -> "Modern"
      [] era = "Modern" -> "Nuclear"
      [] era = "Nuclear" -> "Dawn"
EraNext(era) ==
    CASE era = "Dawn" -> "Ancient"
      [] era = "Ancient" -> "Classical"
      [] era = "Classical" -> "Medieval"
      [] era = "Medieval" -> "Industrial"
      [] era = "Industrial" -> "Modern"
      [] era = "Modern" -> "Nuclear"
      [] era = "Nuclear" -> "None"

\* the position of an era in the declaration of enum Era
EraIndex(era) ==
    CASE era = "Dawn" -> 0
      [] era = "Ancient" -> 1
      [] era = "Classical" -> 2
      [] era = "Medieval" -> 3
      [] era = "Industrial" -> 4
      [] era = "Modern" -> 5
      [] era = "Nuclear" -> 6

\* TechTree::default(): the tier of each era
TechTier(era) ==
    CASE era = "Dawn" ->
           [science_gate |-> 0, culture_gate |-> 0, military_gate |-> 0,
            weapon_tier |-> "KnappedStone",
            unlocks |-> <<"Knapping">>]
      [] era = "Ancient" ->
           [science_gate |-> 35, culture_gate |-> 20, military_gate |-> 10,
            weapon_tier |-> "PolishedStone",
            unlocks |-> <<"PolishedTools">>]
      [] era = "Classical" ->
           [science_gate |-> 50, culture_gate |-> 30, military_gate |-> 18,
            weapon_tier |-> "Bow",
            unlocks |-> <<"Archery">>]
      [] era = "Medieval" ->
           [science_gate |-> 65, culture_gate |-> 40, military_gate |-> 25,
            weapon_tier |-> "Crossbow",
            unlocks |-> <<"Siegecraft">>]
      [] era = "Industrial" ->
           [science_gate |-> 75, culture_gate |-> 55, military_gate |-> 35,
            weapon_tier |-> "Gunpowder",
            unlocks |-> <<"Metallurgy", "GunpowderChemistry">>]
      [] era = "Modern" ->
           [science_gate |-> 85, culture_gate |-> 65, military_gate |-> 50,
            weapon_tier |-> "ModernArmor",
            unlocks |-> <<"Ballistics">>]
      [] era = "Nuclear" ->
           [science_gate |-> 95, culture_gate |-> 75, military_gate |-> 70,
            weapon_tier |-> "NuclearArsenal",
            unlocks |-> <<"NuclearPhysics">>]

\* science_ready && culture_ready && military_ready
GatesMet_NoMilitaryGate(rs, cs, military, tier) ==
    rs >= tier.science_gate /\ cs >= tier.culture_gate
GatesMet(rs, cs, military, tier) ==
    rs >= tier.science_gate /\ cs >= tier.culture_gate /\ military >= tier.military_gate

\* for tech in &next_tier.unlocks: pushed unless unlocked_techs contains it
RECURSIVE PushUnlocks(_, _)
PushUnlocks(unlocked, techs) ==
    IF techs = <<>> THEN unlocked
    ELSE PushUnlocks(IF Head(techs) \in Range(unlocked) THEN unlocked
                     ELSE Append(unlocked, Head(techs)),
                     Tail(techs))

\* technology_system, the body of the loop for one nation
TechnologyNation(m) ==
    IF m.is_destroyed THEN m
    ELSE LET rs == MulDiv(m.research_stock + (m.science * 45 + m.economy * 10) \div 100,
                          9985, 10000)
             cs == MulDiv(m.culture_stock + (m.culture * 35 + m.diplomacy * 5) \div 100,
                          9985, 10000)
             next == EraNext(m.era)
             stocked == [m EXCEPT !.research_stock = rs, !.culture_stock = cs]
         IN IF next = "None" THEN stocked
            ELSE LET tier == TechTier(next)
                 IN IF GatesMet(rs, cs, m.military, tier)
                    THEN [stocked EXCEPT
                             !.era = next,
                             !.weapon_tier = tier.weapon_tier,
                             !.unlocked_techs = PushUnlocks(@, tier.unlocks),
                             !.research_stock = rs - (tier.science_gate * 4) \div 10,
                             !.culture_stock = cs - (tier.culture_gate * 3) \div 10]
                    ELSE stocked

\* the era_shift events of one run, in the order the nations are visited
\* (the map's iteration order is arbitrary; the model visits them as listed)
RECURSIVE EraShiftEvents(_, _, _, _)
EraShiftEvents(before, after, order, t) ==
    IF order = <<>> THEN <<>>
    ELSE LET n == Head(order)
             rest == EraShiftEvents(before, after, Tail(order), t)
         IN IF after[n].era # before[n].era
            THEN <<PlainEvent(t, "EraShift", n)>> \o rest
            ELSE rest

\* -------------------------------- warfare_system (systems/warfare.rs)
\* The whole handler: metrics, cities, the Warfare event, blast markers and
\* InCombat markers.  A request is [a, b, a_wins]: the pair pushed in step 1
\* and whether roll_a > roll_b; the rolls of a run are [rate, escalate, many,
\* mutual]: the casualty rate drawn from 6000.0..12000.0, gen_bool of the
\* escalation, whether nuke_count is at the top or the bottom of its range,
\* and gen_bool(0.8) of the mutual exchange.

\* a map with no key
EmptyMap == [c \in {} |-> 0]

\* casualty counts this large or larger all clamp to the same total; the
\* model does not count beyond it
CasualtySaturation == 1000 * 1000 * 1000

\* (base_force * rng.gen_range(6000.0..12000.0)) as u64
RawCasualties(ms, a, b, rate) == Max(ms[a].military + ms[b].military, 1) * rate

\* matches!(metrics.weapon_tier, WeaponTier::NuclearArsenal)
HoldsArsenal(m) == m.weapon_tier = "NuclearArsenal"

\* let late_game = time.tick > 800 || (nuclear_a && nuclear_b)
LateGame(ms, a, b, t) == t > 800 \/ (HoldsArsenal(ms[a]) /\ HoldsArsenal(ms[b]))

\* let nuclear = if nuclear_a || nuclear_b { rng.gen_bool(..) } else { false }
Escalates_Unarmed(ms, a, b, rolls) == rolls.escalate
Escalates(ms, a, b, rolls) ==
    (HoldsArsenal(ms[a]) \/ HoldsArsenal(ms[b])) /\ rolls.escalate

\* rng.gen_range(200..1001) or rng.gen_range(3..13)
NukeCount(late, rolls) ==
    IF late THEN (IF rolls.many THEN 1000 ELSE 200)
    ELSE (IF rolls.many THEN 12 ELSE 3)

\* (raw_casualties as f32 * multiplier) as u64 with multiplier 5.0 * count
\* (mutual) or 5.0 * (count * 0.5)
EscalatedCasualties(raw, count, mutual) ==
    LET k == 5 * count
    IN IF raw > (2 * CasualtySaturation) \div k THEN CasualtySaturation
       ELSE IF mutual THEN raw * k ELSE (raw * k) \div 2

\* raw_casualties.clamp(15_000, 2_000_000)
TotalCasualties_NoCeiling(raw) == Max(raw, 15000)
TotalCasualties(raw) == Clamp(raw, 15000, 2000000)

\* (casualties / population).clamp(0.0, 0.75) in 1e-4
CasualtyRatio(casualties, population) ==
    Min(IF population >= 10000 THEN casualties \div (population \div 10000)
        ELSE ((casualties * 100) \div population) * 100,
        7500)

\* a value in 1e-4 to the nearest whole point, not below 0
Whole(x) == Max((x + 5000) \div 10000, 0)

\* apply_war_science_penalty on the metrics `m` with the given population
\* still in place
WarPenalty(m, casualties) ==
    IF m.population = 0 THEN m
    ELSE LET ratio == CasualtyRatio(casualties, m.population)
         IN [m EXCEPT
                !.science = Whole(m.science * 10000
                                  - ((m.science * ratio * 6) \div 10 + ratio * 12)),
                !.research_stock =
                    MulDiv(m.research_stock, Clamp(10000 - (ratio * 65) \div 100, 0, 10000),
                           10000),
                !.economy = Whole(m.economy * 10000
                                  - ((m.economy * ratio * 45) \div 100 + ratio * 8)),
                !.culture = Whole(m.culture * 10000 - ratio * 6)]

\* the coordinates each nation owns, as collected before the battles
NationHexes(hs, n) == {h.coord : h \in {x \in hs : x.owner = n}}

\* for dq in -radius..=radius, for dr in max(-radius, -dq-radius)..=min(radius, -dq+radius)
BlastOffsets ==
    {d \in (-2..2) \X (-2..2) : d[2] >= Max(-2, -d[1] - 2) /\ d[2] <= Min(2, -d[1] + 2)}

\* blasts.0.insert(target, duration) around every hex of the loser (at most
\* 20 drawn after a shuffle: all of them on a map this size, and the first
\* found hex again)
MarkBlasts(bl, hs, loser) ==
    LET targets == {<<c[1] + d[1], c[2] + d[2]>> : c \in NationHexes(hs, loser),
                                                   d \in BlastOffsets}
    IN [c \in DOMAIN bl \cup targets |-> IF c \in targets THEN 8 ELSE bl[c]]

\* "3. Find border hexes and mark them as in combat": the winner's hexes with
\* a neighbour owned by the loser get InCombat { ticks_remaining: 5 }
MarkInCombat(ic, hs, winner, loser) ==
    LET border == {c \in NationHexes(hs, winner) :
                      \E o \in NationHexes(hs, loser) :
                          AxialDistance(c[1], c[2], o[1], o[2]) = 1}
    IN [c \in DOMAIN ic \cup border |-> IF c \in border THEN 5 ELSE ic[c]]

\* the Combatants { nation_a: winner, nation_b: loser } inserted with InCombat
MarkCombatants(cs, hs, winner, loser) ==
    LET border == DOMAIN MarkInCombat(EmptyMap, hs, winner, loser)
    IN [c \in DOMAIN cs \cup border |-> IF c \in border THEN <<winner, loser>> ELSE cs[c]]

\* "2. Process battles", the body of the loop for one request; ws is
\* [metrics, civ, events, blasts, in_combat, combatants]
Battle(ws, hs, cap, req, rolls, t) ==
    LET ms == ws.metrics
        winner == IF req.a_wins /\ ms[req.a].military > 0 THEN req.a ELSE req.b
        loser == IF winner = req.a THEN req.b ELSE req.a
        nuclear == Escalates(ms, req.a, req.b, rolls)
        mutual == HoldsArsenal(ms[req.a]) /\ HoldsArsenal(ms[req.b]) /\ rolls.mutual
        raw == RawCasualties(ms, req.a, req.b, rolls.rate)
        total == TotalCasualties(
                     IF nuclear
                     THEN EscalatedCasualties(
                              raw, NukeCount(LateGame(ms, req.a, req.b, t), rolls), mutual)
                     ELSE raw)
        winner_casualties == WinnerCasualties(total)
        loser_casualties == SatSub(total, winner_casualties)
        land == ResolveBattle(ms, ws.civ,
                              [winner |-> winner, loser |-> loser, casualties |-> total])
        wpen == WarPenalty(ms[winner], winner_casualties)
        lpen == WarPenalty(ms[loser], loser_casualties)
        wm == [land[1][winner] EXCEPT
                  !.military = Max(ms[winner].military - 2, 0),
                  !.science = wpen.science,
                  !.research_stock = wpen.research_stock,
                  !.economy = wpen.economy,
                  !.culture = Min(Whole(wpen.culture * 10000 + 6000), 100),
                  !.diplomacy = Min(Whole(ms[winner].diplomacy * 10000 + 4000), 100)]
        lm == [land[1][loser] EXCEPT
                  !.military = Max(ms[loser].military - 2, 0),
                  !.science = lpen.science,
                  !.research_stock = lpen.research_stock,
                  !.economy = lpen.economy,
                  !.culture = lpen.culture]
    IN [ metrics |-> [ms EXCEPT ![winner] = wm, ![loser] = lm],
         civ |-> land[2],
         events |-> WorldEventLogPush(
                        ws.events, cap,
                        WorldEvent(t, "Warfare", winner, loser, total, nuclear)),
         blasts |-> IF nuclear /\ NationHexes(hs, loser) # {}
                    THEN MarkBlasts(ws.blasts, hs, loser) ELSE ws.blasts,
         in_combat |-> MarkInCombat(ws.in_combat, hs, winner, loser),
         combatants |-> MarkCombatants(ws.combatants, hs, winner, loser) ]

RECURSIVE Battles(_, _, _, _, _, _)
Battles(ws, hs, cap, requests, rolls, t) ==
    IF requests = <<>> THEN ws
    ELSE Battles(Battle(ws, hs, cap, Head(requests), rolls, t), hs, cap,
                 Tail(requests), rolls, t)

\* what the loop reads at warfare.rs 111-112 for each request in turn
RECURSIVE Resolutions(_, _, _, _, _, _)
Resolutions(ws, hs, cap, requests, rolls, t) ==
    IF requests = <<>> THEN <<>>
    ELSE LET req == Head(requests)
         IN << [nation_a |-> req.a, nation_b |-> req.b,
                military_a |-> ws.metrics[req.a].military,
                military_b |-> ws.metrics[req.b].military,
                destroyed_a |-> ws.metrics[req.a].is_destroyed,
                destroyed_b |-> ws.metrics[req.b].is_destroyed] >>
             \o Resolutions(Battle(ws, hs, cap, req, rolls, t), hs, cap,
                            Tail(requests), rolls, t)

\* if science_victory.finished { return; }
WarfareSkipped_WrongFlag(tr) == tr.interstellar_mode
WarfareSkipped(tr) == tr.finished

\* "1. Identify potential battles": the pair is skipped when either side is
\* destroyed or has military <= 1.0
Requestable(ms, req) ==
    /\ Eligible(ms, req.a, req.b)
    /\ ms[req.a].military > 1 /\ ms[req.b].military > 1

\* warfare_system
Warfare(ws, hs, cap, tr, requests, rolls, t) ==
    IF WarfareSkipped(tr) THEN ws ELSE Battles(ws, hs, cap, requests, rolls, t)

\* ---- extinction_system, the nation loop in full
\* `share` is (0.2 * severity).min(0.6) in 1e-2, below its cap; severity in
\* 1e-2 is then share * 5
ExtinctionReset(m, share) ==
    IF m.is_destroyed THEN m
    ELSE LET severity == share * 5
         IN [ExtinctionNation(m, share) EXCEPT
                !.economy = Whole(m.economy * Min(25 * severity, 8000)),
                !.culture = Whole(m.culture * Min(30 * severity, 8500)),
                !.military = Whole(m.military * Min(20 * severity, 7000)),
                !.science = Whole(m.science * Min(20 * severity, 7000)),
                !.research_stock = 0,
                !.culture_stock = 0]

\* --------------------------------- the bounded history series
\* ClimateState.{carbon,climate_risk,biodiversity}_history, WarFatigue.history,
\* WorldRichness.history, CivilizationalLedger.{population,gdp}_history.
\* A sample stands for the value recorded at a tick and is written as that
\* tick; the samples the constructors put in are written 0.

\* if history.len() > 512
HistoryCap == 512

ClimateSeries == {"carbon", "climate_risk", "biodiversity"}
FatigueSeries == {"war_fatigue"}
RichnessSeries == {"richness"}
LedgerSeries == {"population", "gdp"}
Series == ClimateSeries \cup FatigueSeries \cup RichnessSeries \cup LedgerSeries

\* ClimateState::default() starts its three series with one sample; the
\* derived Default of the other resources starts theirs empty
HistoriesDefault == [s \in Series |-> IF s \in ClimateSeries THEN <<0>> ELSE <<>>]

\* history.retain(|_| { let keep = i % 2 == 0; i += 1; keep }) with i from 0
Decimate_OddIndices(h) == [i \in 1..(Len(h) \div 2) |-> h[2 * i]]
Decimate(h) == [i \in 1..((Len(h) + 1) \div 2) |-> h[2 * i - 1]]

\* push_history (climate.rs, environment.rs, warfatigue.rs) and the same
\* push / retain written out in refresh_observer_snapshot
PushHistory(h, value) ==
    LET pushed == Append(h, value)
    IN IF Len(pushed) > HistoryCap THEN Decimate(pushed) ELSE pushed

\* one system pushing this tick's sample onto each of its series
PushSeries(hs, written, value) ==
    [s \in Series |-> IF s \in written THEN PushHistory(hs[s], value) ELSE hs[s]]

\* ---- DiplomaticRelations (resources.rs 135-146, derived Default)
DiplomaticRelationsDefault ==
    [ relations |-> EmptyMap, alliances |-> <<>>, sanctions |-> <<>>,
      trust |-> EmptyMap, fear |-> EmptyMap ]

\* the watch channels of main.rs 78-80
Channels == {"tick_duration", "timescale", "pause"}

\* CosmicTimeline::default (resources.rs 249-258); years are counted in
\* thousands, so 1000 stands for 1_000_000.0
CosmicTimelineDefault == [cosmic_age_years |-> 0, timescale_years_per_tick |-> 1000]

\* main: SimulationConfig.years_per_tick, also the first value of the
\* timescale watch channel
InitialYearsPerTick == 1000

\* SimulationWorld::set_timescale
SetTimescale_AlsoAge(c, years_per_tick) ==
    [c EXCEPT !.timescale_years_per_tick = years_per_tick,
              !.cosmic_age_years = @ + years_per_tick]
SetTimescale(c, years_per_tick) == [c EXCEPT !.timescale_years_per_tick = years_per_tick]

\* ObserverSnapshot::new: the fields of the snapshot that this model follows
ObserverSnapshotNew ==
    [tick |-> 0, cosmic_age_years |-> 0, timescale_years_per_tick |-> 1000, grid |-> {}]

\* ------------------------------------------------------ the initial state
\* SimulationWorld::with_observer: default resources, the seeded grid, an
\* observer snapshot that no tick has written yet.
\* ------------------------------ the NPC entities (mod.rs 426-505)
\* Personality values are in 1e-2.

Entities == 1..4

\* npc_templates: faction, the biome of the anchor position, personality,
\* the seeded Behavior and the primary goal with its intensity
Template(e) ==
    CASE e = 1 -> [faction |-> "MerchantGuild", nation |-> "Tera", biome |-> "Market",
                   aggressive |-> 10, cautious |-> 40, social |-> 60, curious |-> 50,
                   state |-> "Idle", primary |-> "Wealth", intensity |-> 70]
      [] e = 2 -> [faction |-> "BanditClans", nation |-> "Sora", biome |-> "Forest",
                   aggressive |-> 60, cautious |-> 20, social |-> 30, curious |-> 40,
                   state |-> "Explore", primary |-> "Glory", intensity |-> 80]
      [] e = 3 -> [faction |-> "ExplorersLeague", nation |-> "Aqua", biome |-> "Plains",
                   aggressive |-> 20, cautious |-> 30, social |-> 50, curious |-> 70,
                   state |-> "Gather", primary |-> "Influence", intensity |-> 60]
      [] e = 4 -> [faction |-> "TempleOfSuns", nation |-> "Tera", biome |-> "Village",
                   aggressive |-> 10, cautious |-> 50, social |-> 70, curious |-> 60,
                   state |-> "Idle", primary |-> "Survival", intensity |-> 50]

InitResources ==
    /\ tick = 0
    /\ calls = 0
    /\ pc = "idle"
    /\ runs = NoRuns
    /\ snapshotTick = 0
    /\ tracker = TrackerDefault
    /\ metrics = AllNationMetricsDefault
    /\ civ = AllNationCivStateDefault
    /\ npc = "idle"
    /\ extinction_events = 0
    /\ hexes = SeedGrid(GridRadius)
    /\ gpc = "idle"
    /\ events = <<>>
    /\ histories = HistoriesDefault
    /\ hpc = "idle"
    /\ blasts = EmptyMap
    /\ in_combat = EmptyMap
    /\ wpc = "idle"
    /\ diplo = DiplomaticRelationsDefault
    /\ lpc = "loop"
    /\ paused = FALSE
    /\ waiter = "none"
    /\ watch = [changed |-> [c \in Channels |-> FALSE], pause |-> FALSE,
                timescale |-> InitialYearsPerTick]
    /\ mpc = "ui"
    /\ ctrl_c = FALSE
    /\ skipped = FALSE
    /\ cosmic = [CosmicTimelineDefault EXCEPT !.timescale_years_per_tick = InitialYearsPerTick]
    /\ snapshot = ObserverSnapshotNew
    /\ view = <<>>
    /\ olock = [writer |-> FALSE, readers |-> 0, taken |-> 0]
    /\ finished = {}
    /\ config = [grid_radius |-> GridRadius, years_per_tick |-> InitialYearsPerTick]
    /\ combatants = EmptyMap
    /\ fought = <<>>
    /\ fatigue = 0
    /\ fallout = EmptyMap
    /\ behavior = [e \in Entities |-> Template(e).state]
    /\ threshold = <<0, 0, 0, 0>>
    /\ tilted = FALSE
    /\ epc = "idle"
    /\ world_blocs = EmptyMap

\* world.insert_resource(WorldEventLog::default())
\* and a lock that no holder has poisoned
Init == InitResources /\ capacity = DefaultLogCapacity /\ poisoned = FALSE

\* ------------------------------------ SimulationWorld::tick (mod.rs 120-128)

\* time.tick += 1, then schedule.run starts
TickBegin ==
    /\ pc = "idle"
    /\ calls < MaxTicks
    /\ calls' = calls + 1
    /\ tick' = AdvanceTick(tick)
    /\ runs' = NoRuns
    /\ pc' = "schedule"
    /\ UNCHANGED <<restVars, snapshotTick, tracker, metrics, civ, npc, extinction_events,
                   hexes, gpc>>

\* schedule.run: the executor starts a system whose predecessors have run
RunSystem(s) ==
    /\ pc = "schedule"
    /\ Ready(s)
    /\ runs' = [runs EXCEPT ![s] = runs[s] + 1]
    /\ UNCHANGED <<restVars, tick, calls, pc, snapshotTick, tracker, metrics, civ, npc,
                   extinction_events, hexes, gpc>>

\* schedule.run has returned; refresh_observer_snapshot publishes the tick
RefreshObserverSnapshot ==
    /\ pc = "schedule"
    /\ \A s \in Systems : runs[s] > 0
    /\ snapshotTick' = tick
    /\ pc' = "idle"
    /\ UNCHANGED <<restVars, tick, calls, runs, tracker, metrics, civ, npc,
                   extinction_events,
                   hexes, gpc>>

Next ==
    \/ TickBegin
    \/ \E s \in Systems : RunSystem(s)
    \/ RefreshObserverSnapshot

Spec == Init /\ [][Next]_vars

C2_GroupsRunInOrder ==
    /\ (\E s \in Range(Phase2Chain) : runs[s] > 0)
          => \A s \in Range(Phase1Chain) : runs[s] > 0
    /\ runs["extinction_system"] > 0
          => \A s \in Range(Phase1Chain) \cup Range(Phase2Chain) : runs[s] > 0

\* C3: within every tick combat_cleanup_system runs before warfare_system,
\* richness_overlay_system before climate_impact_system, and
\* event_generation_system before logging_system.
C3_OrderedPairs ==
    /\ runs["warfare_system"] > 0 => runs["combat_cleanup_system"] > 0
    /\ runs["climate_impact_system"] > 0 => runs["richness_overlay_system"] > 0
    /\ runs["logging_system"] > 0 => runs["event_generation_system"] > 0

C3_AllThreeLaterSystemsRan ==
    /\ pc = "schedule"
    /\ runs["warfare_system"] = 1
    /\ runs["climate_impact_system"] = 1
    /\ runs["logging_system"] = 1

\* ------------------------------------------- the space race over the ticks
\* science_victory_system runs once per tick on the metrics and blocs the
\* other systems left.  Two worlds are drawn: a thriving one, and the tick
\* after an extinction reset (cosmic.rs 73-84), when every live nation's
\* science, economy, culture, military and population are cut, research_stock
\* is 0 plus one technology_system step, and the blocs still carry the
\* strength bloc_system computed before the reset.

MaxVictoryTicks == 450
MaxExtinctions == 2

ThrivingNation ==
    [NationMetricsDefault EXCEPT
        !.economy = 120, !.science = 120, !.culture = 120, !.diplomacy = 60,
        !.military = 100, !.research_stock = 20000, !.era = "Nuclear",
        !.weapon_tier = "NuclearArsenal",
        !.population = 12000000, !.youth = 3600000, !.adult = 7200000,
        !.elder = 1200000]

\* ThrivingNation after extinction_system with severity 0.5 and the next
\* technology_system step
AftermathNation ==
    [ThrivingNation EXCEPT
        !.economy = 15, !.science = 12, !.culture = 18, !.military = 10,
        !.research_stock = 7, !.population = 1200000]

VictoryWorlds == {"thriving", "aftermath"}

\* a thriving nation whose people the wars have taken: not destroyed,
\* population 0
DepopulatedNation ==
    [ThrivingNation EXCEPT !.population = 0, !.youth = 0, !.adult = 0, !.elder = 0]

WorldMetrics(world) ==
    [n \in Nations |->
        IF world = "aftermath" THEN AftermathNation
        ELSE IF world = "depopulated" /\ n = "Tera" THEN DepopulatedNation
        ELSE ThrivingNation]

\* bloc_system: the members drawn at the first run, the strength recomputed
\* at each run from the metrics of that moment
ResearchMembers == {"Tera", "Luna"}
SanctionMembers == Nations

\* WorldBlocs as science_victory_system reads it: empty in the first tick
\* (bloc_system runs later in the tick), afterwards as the last run left it
BlocsSeen(t) ==
    IF t = 0
    THEN [ research |-> [members |-> {}, strength |-> 0],
           sanction |-> [members |-> {}, strength |-> 0] ]
    ELSE [ research |-> [members |-> ResearchMembers,
                         strength |-> BlocStrength(ResearchMembers, WorldMetrics("thriving"))],
           sanction |-> [members |-> SanctionMembers,
                         strength |-> BlocStrength(SanctionMembers, WorldMetrics("thriving"))] ]

VictoryTick(world) ==
    /\ tick < MaxVictoryTicks
    /\ world = "aftermath" => tick > 0 /\ extinction_events < MaxExtinctions
    /\ \E first \in Leaders(tracker, WorldMetrics(world), BlocsSeen(tick)) :
          tracker' = ScienceVictoryStep(tracker, WorldMetrics(world), BlocsSeen(tick), first)
    /\ metrics' = WorldMetrics(world)
    /\ extinction_events' = IF world = "aftermath" THEN extinction_events + 1
                            ELSE extinction_events
    /\ tick' = AdvanceTick(tick)
    /\ UNCHANGED <<restVars, schedVars, civ, npc, gridVars>>

NextVictory == \E world \in VictoryWorlds : VictoryTick(world)

SpecVictory == Init /\ [][NextVictory]_vars

\* SpaceStage (resources.rs 188-193) in its order, with the finished flag as
\* the last phase
StageIndex(stage) ==
    CASE stage = "Moon" -> 0
      [] stage = "Mars" -> 1
      [] stage = "Jovian" -> 2
      [] stage = "Interstellar" -> 3

PhaseIndex(tr) == IF tr.finished THEN 4 ELSE StageIndex(tr.space_stage)

\* C4: the space-race phase only moves forward through Moon, Mars, Jovian,
\* Interstellar, Finished, one phase at a time, and moon_done, mars_done,
\* jovian_done and finished, once true, stay true.
C4_PhaseOnlyForward ==
    [][ /\ PhaseIndex(tracker') \in {PhaseIndex(tracker), PhaseIndex(tracker) + 1}
        /\ tracker.moon_done => tracker'.moon_done
        /\ tracker.mars_done => tracker'.mars_done
        /\ tracker.jovian_done => tracker'.jovian_done
        /\ tracker.finished => tracker'.finished ]_vars

C4_AllPhasesPassed ==
    /\ PhaseIndex(tracker) = 4
    /\ tracker.moon_done /\ tracker.mars_done /\ tracker.jovian_done

\* C5: within each phase the tracked progress never decreases from one tick
\* to the next and never exceeds the phase's goal: every nation's Moon
\* progress, mars_progress, jovian_progress and interstellar_progress.
C5_ProgressMonotoneAndBounded ==
    [][ /\ \A n \in Nations :
              /\ tracker'.progress[n] >= tracker.progress[n]
              /\ tracker'.progress[n] <= Goal
        /\ tracker'.mars_progress >= tracker.mars_progress
        /\ tracker'.mars_progress <= MarsGoal
        /\ tracker'.jovian_progress >= tracker.jovian_progress
        /\ tracker'.jovian_progress <= JovianGoal
        /\ tracker'.interstellar_progress >= tracker.interstellar_progress
        /\ tracker'.interstellar_progress <= InterstellarGoal ]_vars

\* C6: the leader's progress is at most 100, and whenever finished is true
\* the winner is Some and Moon, Mars and Jovian are done with the
\* Interstellar phase entered.
C6_LeaderBoundedAndFinishComplete ==
    /\ LeaderProgress(tracker) <= Goal
    /\ tracker.finished =>
          /\ tracker.winner \in Nations
          /\ tracker.moon_done /\ tracker.mars_done /\ tracker.jovian_done
          /\ tracker.space_stage = "Interstellar"

C6_FinishedAtGoal ==
    /\ tracker.finished
    /\ LeaderProgress(tracker) = Goal
    /\ tracker.interstellar_progress = InterstellarGoal

\* ------------------------------------------- the nations over the ticks
\* The systems that write population, the cohorts, territory, is_destroyed
\* and cities, in the order of their registration: civilization_system,
\* warfare_system, climate_impact_system, demography_system,
\* event_generation_system, extinction_system.

MaxNationTicks == 2

\* rng.gen_bool(chance) per nation: the nations whose draw is true
FounderDraws == {{}, {"Tera"}, Nations}

\* the requests pushed this tick with their rolls: nobody fights, one battle,
\* or two battles in a row; total_casualties at either end of its clamp
CasualtyDraws == {15000, 2000000}

BattleDraws ==
    {<<>>}
    \cup {<<[winner |-> "Tera", loser |-> "Sora", casualties |-> k]>> : k \in CasualtyDraws}
    \cup {<<[winner |-> "Sora", loser |-> "Tera", casualties |-> k]>> : k \in CasualtyDraws}
    \cup {<<[winner |-> "Tera", loser |-> "Sora", casualties |-> k],
            [winner |-> "Aqua", loser |-> "Sora", casualties |-> k]>> : k \in CasualtyDraws}

\* ClimateState as climate_system left it: the default, a calm world with
\* low seas, and a hot world with high seas
ClimateInputs ==
    { [sea |-> 8, ice |-> 30, risk |-> 6],
      [sea |-> 2, ice |-> 40, risk |-> 10],
      [sea |-> 35, ice |-> 10, risk |-> 60] }

\* the pulses of event_generation_system: severity in 1e-3, 0 for no pulse
EventDraws ==
    { [plague |-> 50000, catastrophe |-> 0, omega |-> 0],
      [plague |-> 50000, catastrophe |-> 349, omega |-> 0],
      [plague |-> 50000, catastrophe |-> 0, omega |-> 999] }

\* (0.2 * severity).min(0.6) in 1e-2 when the reset fires, 0 when it does not
ExtinctionDraws == {0, 10}

NationTickBegin ==
    /\ npc = "idle"
    /\ tick < MaxNationTicks
    /\ tick' = AdvanceTick(tick)
    /\ npc' = "civilization"
    /\ UNCHANGED <<restVars, schedVars, tracker, metrics, civ, extinction_events, gridVars>>

CivilizationSystem ==
    /\ npc = "civilization"
    /\ \E founders \in FounderDraws :
          LET after == [n \in Nations |->
                           CivilizationNation(metrics[n], civ[n], n \in founders)]
          IN /\ metrics' = [n \in Nations |-> after[n][1]]
             /\ civ' = [n \in Nations |-> after[n][2]]
    /\ npc' = "warfare"
    /\ UNCHANGED <<restVars, tick, schedVars, tracker, extinction_events, gridVars>>

WarfareSystem ==
    /\ npc = "warfare"
    /\ IF tracker.finished
       THEN UNCHANGED <<metrics, civ>>
       ELSE \E requests \in BattleDraws :
               /\ \A i \in 1..Len(requests) :
                     Eligible(metrics, requests[i].winner, requests[i].loser)
               /\ LET after == ProcessBattles(metrics, civ, requests)
                  IN metrics' = after[1] /\ civ' = after[2]
    /\ npc' = "climate_impact"
    /\ UNCHANGED <<restVars, tick, schedVars, tracker, extinction_events, gridVars>>

ClimateImpactSystem ==
    /\ npc = "climate_impact"
    /\ \E cl \in ClimateInputs :
          /\ metrics' = [n \in Nations |-> ClimateImpactNation(metrics[n], cl)]
          /\ civ' = [n \in Nations |-> ClimateImpactCiv(metrics[n], civ[n], cl)]
    /\ npc' = "demography"
    /\ UNCHANGED <<restVars, tick, schedVars, tracker, extinction_events, gridVars>>

DemographySystem ==
    /\ npc = "demography"
    /\ metrics' = [n \in Nations |-> DemographyNation(metrics[n])]
    /\ npc' = "events"
    /\ UNCHANGED <<restVars, tick, schedVars, tracker, civ, extinction_events, gridVars>>

EventGenerationSystem ==
    /\ npc = "events"
    /\ \E ev \in EventDraws :
          metrics' = [n \in Nations |-> EventGenerationNation(metrics[n], tick, ev)]
    /\ npc' = "extinction"
    /\ UNCHANGED <<restVars, tick, schedVars, tracker, civ, extinction_events, gridVars>>

\* returns at once unless the climate is extreme or the age threshold is met
ExtinctionSystem ==
    /\ npc = "extinction"
    /\ \E share \in ExtinctionDraws :
          IF share = 0
          THEN UNCHANGED <<metrics, civ, extinction_events, fatigue>>
          ELSE /\ extinction_events < MaxExtinctions
               /\ extinction_events' = extinction_events + 1
               /\ fatigue' = 0
               /\ metrics' = [n \in Nations |-> ExtinctionNation(metrics[n], share)]
               /\ civ' = [n \in Nations |-> ExtinctionCiv(civ[n])]
    /\ npc' = "idle"
    /\ UNCHANGED <<logVars, histVars, warVars, calmVars, tick, schedVars, tracker, gridVars>>

NextNations ==
    \/ NationTickBegin
    \/ CivilizationSystem
    \/ WarfareSystem
    \/ ClimateImpactSystem
    \/ DemographySystem
    \/ EventGenerationSystem
    \/ ExtinctionSystem

SpecNations == Init /\ [][NextNations]_vars

\* C7: in the state published after every tick, every non-destroyed nation
\* has population == youth + adult + elder.
C7_PopulationIsCohortSum ==
    npc = "idle" =>
        \A n \in Nations :
            ~metrics[n].is_destroyed =>
                metrics[n].population
                    = metrics[n].youth + metrics[n].adult + metrics[n].elder

\* --------------------------------------------- the grid over the ticks
\* The systems that write hex entities after seeding: flood_system and
\* territory_system (warfare_system and combat_cleanup_system only insert
\* and remove the InCombat component; no system spawns or despawns).

MaxGridTicks == 2

\* NationMetrics.territory as the other systems left it, between the floor
\* and the cap of climate_impact_system: all at the default, one nation
\* large among small ones, one nation small among large ones
TerritoryDraws ==
    {[n \in Nations |-> 3333]}
    \cup {[n \in Nations |-> IF n = large THEN 12000 ELSE 500] : large \in Nations}
    \cup {[n \in Nations |-> IF n = small THEN 500 ELSE 12000] : small \in Nations}

GridTickBegin ==
    /\ gpc = "idle"
    /\ tick < MaxGridTicks
    /\ tick' = AdvanceTick(tick)
    /\ gpc' = "flood"
    /\ UNCHANGED <<restVars, schedVars, tracker, nationVars, hexes>>

FloodSystemRun ==
    /\ gpc = "flood"
    /\ \E cl \in ClimateInputs : hexes' = FloodSystem(hexes, cl, GridRadius)
    /\ gpc' = "territory"
    /\ UNCHANGED <<restVars, tick, schedVars, tracker, nationVars>>

TerritorySystemRun ==
    /\ gpc = "territory"
    /\ \E terr \in TerritoryDraws :
          /\ metrics' = [n \in Nations |-> [metrics[n] EXCEPT !.territory = terr[n]]]
          /\ hexes' = TerritorySystem(hexes, metrics', GridRadius)
    /\ gpc' = "idle"
    /\ UNCHANGED <<restVars, tick, schedVars, tracker, civ, npc, extinction_events>>

NextGrid ==
    \/ GridTickBegin
    \/ FloodSystemRun
    \/ TerritorySystemRun

SpecGrid == Init /\ [][NextGrid]_vars

\* C10: after seeding and after every tick each land hex coordinate has
\* exactly one owner nation, and the set of hex coordinates is exactly the
\* set produced at seeding.
C10_HexSetFixedOneOwnerEach ==
    /\ {h.coord : h \in hexes} = LandCoords(GridRadius)
    /\ \A c \in LandCoords(GridRadius) :
          Cardinality({h \in hexes : h.coord = c}) = 1
    /\ \A h \in hexes : h.owner \in Nations

C10_OwnersAndBiomesChanged ==
    /\ gpc = "idle"
    /\ tick = 2
    /\ \E h \in hexes : h.owner # SeedHex(h.coord).owner
    /\ \E h \in hexes : h.biome # SeedHex(h.coord).biome /\ h.biome = "Market"

\* ------------------------------------------------ the event log on its own
\* WorldEventLog::new(capacity) for a few capacities, then a run of pushes;
\* the event pushed at tick t carries t, so events are told apart.

MaxPushes == 260

LogCapacities == {0, 1, 2, 3, DefaultLogCapacity}

InitEventLog == InitResources /\ capacity \in LogCapacities /\ poisoned = FALSE

PushEvent ==
    /\ tick < MaxPushes
    /\ tick' = AdvanceTick(tick)
    /\ events' = WorldEventLogPush(events, capacity, PlainEvent(tick', "Social", "Tera"))
    /\ UNCHANGED <<lateVars, capacity, histVars, warVars, schedVars, tracker, nationVars,
                   gridVars>>

NextEventLog == PushEvent

SpecEventLog == InitEventLog /\ [][NextEventLog]_vars

\* C11: for a log of any configured capacity the number of stored events is
\* at most the capacity after any sequence of pushes, and a push onto a full
\* log removes exactly the oldest event and appends the new one.
C11_LogBoundedFifo ==
    [][ /\ Len(events') <= capacity
        /\ Len(events) = capacity =>
              /\ Len(events') = capacity
              /\ \A i \in 1..(capacity - 1) : events'[i] = events[i + 1]
              /\ events'[Len(events')].tick = tick' ]_vars

\* --------------------------------------- the history series over the ticks
\* The writers of the series in the order they run in a tick:
\* climate_system (chain 1), richness_overlay_system and war_fatigue_system
\* (chain 2), then refresh_observer_snapshot after the schedule.

MaxHistoryTicks == 800

HistoryTickBegin ==
    /\ hpc = "idle"
    /\ tick < MaxHistoryTicks
    /\ tick' = AdvanceTick(tick)
    /\ hpc' = "climate"
    /\ UNCHANGED <<lateVars, histories, logVars, warVars, schedVars, tracker, nationVars,
                   gridVars>>

ClimateSystemHistory ==
    /\ hpc = "climate"
    /\ histories' = PushSeries(histories, ClimateSeries, tick)
    /\ hpc' = "richness"
    /\ UNCHANGED <<lateVars, tick, logVars, warVars, schedVars, tracker, nationVars,
                   gridVars>>

RichnessOverlayHistory ==
    /\ hpc = "richness"
    /\ histories' = PushSeries(histories, RichnessSeries, tick)
    /\ hpc' = "war_fatigue"
    /\ UNCHANGED <<lateVars, tick, logVars, warVars, schedVars, tracker, nationVars,
                   gridVars>>

WarFatigueHistory ==
    /\ hpc = "war_fatigue"
    /\ histories' = PushSeries(histories, FatigueSeries, tick)
    /\ hpc' = "refresh"
    /\ UNCHANGED <<lateVars, tick, logVars, warVars, schedVars, tracker, nationVars,
                   gridVars>>

LedgerHistory ==
    /\ hpc = "refresh"
    /\ histories' = PushSeries(histories, LedgerSeries, tick)
    /\ hpc' = "idle"
    /\ UNCHANGED <<lateVars, tick, logVars, warVars, schedVars, tracker, nationVars,
                   gridVars>>

NextHistory ==
    \/ HistoryTickBegin
    \/ ClimateSystemHistory
    \/ RichnessOverlayHistory
    \/ WarFatigueHistory
    \/ LedgerHistory

SpecHistory == Init /\ [][NextHistory]_vars

\* C12: after every append each bounded history series has at most 512
\* samples; an append that takes the length past the cap leaves every other
\* sample in order, 257 of the 513, the first sample and the newest among
\* them.
C12_HistoryCappedAndDecimated ==
    [][ \A s \in Series :
          /\ Len(histories'[s]) <= HistoryCap
          /\ histories'[s] # histories[s] =>
                LET old == histories[s]
                    now == histories'[s]
                IN IF Len(old) = HistoryCap
                   THEN /\ Len(now) = HistoryCap \div 2 + 1
                        /\ now[1] = old[1]
                        /\ now[Len(now)] = tick
                        /\ \A i \in 1..(Len(now) - 1) :
                              now[i] = old[2 * i - 1] /\ now[i] < now[i + 1]
                   ELSE now = Append(old, tick) ]_vars

C12_EverySeriesDecimatedTwice ==
    /\ hpc = "idle"
    /\ \A s \in Series :
          /\ Len(histories[s]) < HistoryCap \div 2 + 1 + (tick - (HistoryCap + 1))
          /\ histories[s][Len(histories[s])] = tick
          /\ histories[s][2] > 2
    /\ histories["population"][1] = 1
    /\ histories["carbon"][1] = 0
    /\ tick = MaxHistoryTicks

\* ------------------------------- technology and warfare over the ticks
\* technology_system and warfare_system (in this order in chain 1),
\* climate_impact_system (chain 2, not ordered against chain 1) and
\* extinction_system.  wpc is "phases" while warfare and climate impact are
\* both still to run in the tick, "phase1" while only warfare is and "phase2"
\* while only climate impact is, "tail" once both have run.  At the start of a tick
\* economy, science, culture, diplomacy and military of the live nations are
\* as the economy-side systems left them: two advanced nations, one at the
\* defaults, two with a spent army.  era, weapon_tier, the stocks, territory,
\* population and is_destroyed carry over from tick to tick.

MaxWarTicks == 11
MaxTechTicks == 7

\* the number of closing ticks in which battle requests are drawn
MaxWarRuns == 2

WarWorld ==
    [n \in Nations |->
        IF n \in {"Tera", "Sora"}
        THEN [economy |-> 120, science |-> 120, culture |-> 120, diplomacy |-> 60,
              military |-> 100]
        ELSE IF n = "Aqua"
        THEN [economy |-> 50, science |-> 20, culture |-> 30, diplomacy |-> 30,
              military |-> 20]
        ELSE [economy |-> 50, science |-> 20, culture |-> 30, diplomacy |-> 30,
              military |-> 2]]

Refreshed(m, w) ==
    IF m.is_destroyed THEN m
    ELSE [m EXCEPT !.economy = w.economy, !.science = w.science,
                   !.culture = w.culture, !.diplomacy = w.diplomacy,
                   !.military = w.military]

\* ClimateState in a hot age short of the extinction threshold
HotClimate == [sea |-> 65, ice |-> 5, risk |-> 90]

\* battle requests in an order the pair loops can produce
WarRequestDraws ==
    { <<>>,
      << [a |-> "Tera", b |-> "Sora", a_wins |-> TRUE] >>,
      << [a |-> "Tera", b |-> "Aqua", a_wins |-> TRUE] >>,
      << [a |-> "Aqua", b |-> "Solar", a_wins |-> TRUE],
         [a |-> "Aqua", b |-> "Luna", a_wins |-> TRUE],
         [a |-> "Solar", b |-> "Luna", a_wins |-> FALSE] >>,
      << [a |-> "Tera", b |-> "Sora", a_wins |-> TRUE],
         [a |-> "Sora", b |-> "Aqua", a_wins |-> FALSE],
         [a |-> "Sora", b |-> "Solar", a_wins |-> FALSE],
         [a |-> "Sora", b |-> "Luna", a_wins |-> FALSE] >> }

WarRollDraws ==
    { [rate |-> 6000, escalate |-> FALSE, many |-> FALSE, mutual |-> FALSE],
      [rate |-> 11999, escalate |-> TRUE, many |-> TRUE, mutual |-> TRUE] }

TechRequestDraws ==
    { <<>>, << [a |-> "Tera", b |-> "Sora", a_wins |-> TRUE] >> }

TechRollDraws ==
    { [rate |-> 11999, escalate |-> TRUE, many |-> TRUE, mutual |-> TRUE] }

\* the indices of the Warfare events in a log
WarfareEntries(log) == {i \in 1..Len(log) : log[i].kind = "Warfare"}

\* the ticks in which battle requests are drawn: the closing ticks, when
\* arsenals exist and the seas have taken the land down to its floor
WarTicks == (MaxWarTicks - MaxWarRuns + 1)..MaxWarTicks

TechWarTicks == {MaxTechTicks - 1}

WarTickBegin(maxTicks) ==
    /\ wpc = "idle"
    /\ tick < maxTicks
    /\ tick' = AdvanceTick(tick)
    /\ metrics' = [n \in Nations |-> Refreshed(metrics[n], WarWorld[n])]
    /\ wpc' = "technology"
    /\ UNCHANGED <<lateVars, schedVars, tracker, civ, npc, extinction_events, gridVars,
                   logVars,
                   histVars, blasts, in_combat>>

TechnologySystem ==
    /\ wpc = "technology"
    /\ metrics' = [n \in Nations |-> TechnologyNation(metrics[n])]
    /\ events' = PushAll(events, capacity, EraShiftEvents(metrics, metrics', Sectors, tick))
    /\ wpc' = "phases"
    /\ UNCHANGED <<lateVars, tick, schedVars, tracker, civ, npc, extinction_events,
                   gridVars,
                   capacity, histVars, blasts, in_combat>>

WarfareRun(requestDraws, rollDraws, warTicks) ==
    /\ wpc \in {"phases", "phase1"}
    /\ \E requests \in requestDraws, rolls \in rollDraws :
          /\ requests # <<>> => tick \in warTicks
          /\ \A i \in 1..Len(requests) : Requestable(metrics, requests[i])
          /\ LET ws == [metrics |-> metrics, civ |-> civ, events |-> events,
                        blasts |-> blasts, in_combat |-> in_combat,
                        combatants |-> combatants]
                 after == Warfare(ws, hexes, capacity, tracker, requests, rolls, tick)
             IN /\ metrics' = after.metrics
                /\ civ' = after.civ
                /\ events' = after.events
                /\ blasts' = after.blasts
                /\ in_combat' = after.in_combat
                /\ combatants' = after.combatants
                /\ fought' = IF WarfareSkipped(tracker) THEN <<>>
                              ELSE Resolutions(ws, hexes, capacity, requests, rolls, tick)
    /\ wpc' = IF wpc = "phases" THEN "phase2" ELSE "tail"
    /\ UNCHANGED <<apartVars, diplo, loopVars, obsVars, config, fatigue, fallout, tick, schedVars, tracker, npc,
                   extinction_events, gridVars,
                   capacity,
                   histVars>>

ClimateImpactRun(inputs) ==
    /\ wpc \in {"phases", "phase2"}
    /\ \E cl \in inputs :
          /\ metrics' = [n \in Nations |-> ClimateImpactNation(metrics[n], cl)]
          /\ civ' = [n \in Nations |-> ClimateImpactCiv(metrics[n], civ[n], cl)]
    /\ wpc' = IF wpc = "phases" THEN "phase1" ELSE "tail"
    /\ UNCHANGED <<lateVars, tick, schedVars, tracker, npc, extinction_events,
                   gridVars,
                   logVars, histVars, blasts, in_combat>>

\* returns at once unless the climate is extreme or the age threshold is met;
\* otherwise the reset and its MacroShock event
ExtinctionRun(shares) ==
    /\ wpc = "tail"
    /\ \E share \in shares :
          IF share = 0
          THEN UNCHANGED <<metrics, civ, extinction_events, events, fatigue>>
          ELSE /\ extinction_events < MaxExtinctions
               /\ extinction_events' = extinction_events + 1
               /\ fatigue' = 0
               /\ metrics' = [n \in Nations |-> ExtinctionReset(metrics[n], share)]
               /\ civ' = [n \in Nations |-> ExtinctionCiv(civ[n])]
               /\ events' = WorldEventLogPush(events, capacity,
                                              PlainEvent(tick, "MacroShock", "None"))
    /\ wpc' = "idle"
    /\ UNCHANGED <<calmVars, tick, schedVars, tracker, npc, gridVars, capacity, histVars,
                   blasts,
                   in_combat>>

NextWar ==
    \/ WarTickBegin(MaxWarTicks)
    \/ TechnologySystem
    \/ WarfareRun(WarRequestDraws, WarRollDraws, WarTicks)
    \/ ClimateImpactRun({HotClimate})
    \/ ExtinctionRun({0})

SpecWar == Init /\ [][NextWar]_vars

NextTech ==
    \/ WarTickBegin(MaxTechTicks)
    \/ TechnologySystem
    \/ WarfareRun(TechRequestDraws, TechRollDraws, TechWarTicks)
    \/ ClimateImpactRun({HotClimate})
    \/ ExtinctionRun(ExtinctionDraws)

SpecTech == Init /\ [][NextTech]_vars

\* the indices of the events a step appended to the log
NewEntries == (Len(events) + 1)..Len(events')

\* the Warfare events a step appended: the battles it resolved
NewBattles == {i \in NewEntries : events'[i].kind = "Warfare"}

\* the population a nation lost in a step
PopulationLost(n) == metrics[n].population - metrics'[n].population

\* C13: every battle warfare_system resolves records total casualties within
\* [15,000, 2,000,000], escalated or not, and the casualties taken from the
\* winner and from the loser add up to that total (seen on the populations
\* when the step resolved one battle and both populations could bear it).
C13_CasualtiesClampedAndSplit ==
    [][ \A i \in NewBattles :
           LET e == events'[i]
           IN /\ e.casualties >= 15000
              /\ e.casualties <= 2000000
              /\ (/\ Cardinality(NewBattles) = 1
                  /\ metrics[e.nation].population >= e.casualties
                  /\ metrics[e.rival].population >= e.casualties)
                 => /\ PopulationLost(e.nation) = WinnerCasualties(e.casualties)
                    /\ PopulationLost(e.nation) + PopulationLost(e.rival) = e.casualties
      ]_vars

\* battles at the floor, at the ceiling by a nuclear exchange, and in between
C13_FloorCeilingAndBetween ==
    /\ \E i \in WarfareEntries(events) : events[i].casualties = 15000
    /\ \E i \in WarfareEntries(events) :
          events[i].casualties = 2000000 /\ events[i].nuclear
    /\ \E i \in WarfareEntries(events) :
          events[i].casualties > 15000 /\ events[i].casualties < 2000000

\* C14: in every warfare_system run each nation's territory moves by exactly
\* territory_change (0.5) up for every battle it won and down for every battle
\* it lost, whatever territory the loser held when the battle was resolved.
C14_TerritoryMovesBySameMagnitude ==
    [][ NewBattles # {} =>
           \A n \in Nations :
               metrics'[n].territory =
                   metrics[n].territory
                   + 50 * Cardinality({i \in NewBattles : events'[i].nation = n})
                   - 50 * Cardinality({i \in NewBattles : events'[i].rival = n})
      ]_vars

\* a nation driven to the floor by the seas has lost every battle of two
\* warfare runs in a row
C14_LoserBelowTheFloor ==
    \E n \in Nations :
        /\ metrics[n].territory = 100
        /\ Cardinality({i \in WarfareEntries(events) : events[i].rival = n}) = 8

\* C15: a battle is recorded as nuclear, and blast markers are placed, only
\* if one of the two combatants holds the NuclearArsenal tier when the battle
\* is resolved.
C15_NuclearOnlyWithArsenal ==
    [][ /\ \A i \in NewBattles :
              events'[i].nuclear =>
                  \/ HoldsArsenal(metrics[events'[i].nation])
                  \/ HoldsArsenal(metrics[events'[i].rival])
        /\ blasts' # blasts =>
              \E i \in NewBattles :
                  /\ events'[i].nuclear
                  /\ \/ HoldsArsenal(metrics[events'[i].nation])
                     \/ HoldsArsenal(metrics[events'[i].rival])
      ]_vars

\* a nuclear battle left blast markers, and a battle between nations without
\* the arsenal stayed conventional
C15_BlastsAndConventionalWar ==
    /\ DOMAIN blasts # {}
    /\ \E i \in WarfareEntries(events) :
          events[i].nuclear /\ HoldsArsenal(metrics[events[i].nation])
    /\ \E i \in WarfareEntries(events) :
          /\ ~events[i].nuclear
          /\ ~HoldsArsenal(metrics[events[i].nation])
          /\ ~HoldsArsenal(metrics[events[i].rival])

\* C17: a nation's era never moves to an earlier era, through extinction
\* resets and lost wars alike, and it climbs at most one rung per tick: only
\* the one technology_system run of a tick moves it, by one rung.
C17_EraNeverRegresses ==
    [][ \A n \in Nations :
           /\ EraIndex(metrics'[n].era) >= EraIndex(metrics[n].era)
           /\ EraIndex(metrics'[n].era) <= EraIndex(metrics[n].era) + 1
           /\ metrics'[n].era # metrics[n].era => wpc = "technology"
      ]_vars

\* a nation that climbed to the last era, lost a war there and was reset by
\* an extinction
C17_ResetAndDefeatedAtTheTop ==
    \E n \in Nations :
        /\ metrics[n].era = "Nuclear"
        /\ extinction_events > 0
        /\ metrics[n].research_stock = 0
        /\ \E i \in WarfareEntries(events) : events[i].rival = n

\* ----------------------------------- warfare and the end of the science race
\* technology, warfare, climate impact as above, then science_victory_system,
\* which chain 1 runs after warfare_system.

MaxEndgameTicks == 908

\* ClimateState in a mild age
MildClimate == [sea |-> 10, ice |-> 60, risk |-> 10]

\* WorldBlocs as bloc_system left it at its last run: the members drawn at
\* the first run, the strength from the metrics
BlocsOf(t, ms) ==
    IF t <= 1
    THEN [ research |-> [members |-> {}, strength |-> 0],
           sanction |-> [members |-> {}, strength |-> 0] ]
    ELSE [ research |-> [members |-> ResearchMembers,
                         strength |-> BlocStrength(ResearchMembers, ms)],
           sanction |-> [members |-> SanctionMembers,
                         strength |-> BlocStrength(SanctionMembers, ms)] ]

\* the science_progress events of the Moon loop, in the order the nations are
\* visited (as listed; the map's order is arbitrary)
RECURSIVE MilestoneEvents(_, _, _, _)
MilestoneEvents(tr, after, order, t) ==
    IF order = <<>> THEN <<>>
    ELSE LET n == Head(order)
             rest == MilestoneEvents(tr, after, Tail(order), t)
         IN IF after.milestones[n] > tr.milestones[n]
            THEN <<PlainEvent(t, "ScienceProgress", n)>> \o rest
            ELSE rest

\* the events science_victory_system pushes in the run that took the tracker
\* from `tr` to `after`
VictoryEvents(tr, after, t) ==
    IF ~tr.moon_done
    THEN MilestoneEvents(tr, after, Sectors, t)
         \o (IF after.moon_done THEN <<PlainEvent(t, "ScienceVictory", after.winner)>>
             ELSE <<>>)
    ELSE IF tr.space_stage = "Mars"
    THEN (IF t % 8 = 0 THEN <<PlainEvent(t, "InterstellarProgress", tr.winner)>> ELSE <<>>)
    ELSE IF tr.space_stage = "Jovian"
    THEN (IF t % 10 = 0 THEN <<PlainEvent(t, "InterstellarProgress", tr.winner)>> ELSE <<>>)
    ELSE IF tr.interstellar_mode
    THEN (IF t % 8 = 0 THEN <<PlainEvent(t, "InterstellarProgress", tr.winner)>> ELSE <<>>)
         \o (IF after.finished THEN <<PlainEvent(t, "InterstellarVictory", tr.winner)>>
             ELSE <<>>)
    ELSE <<>>

ScienceVictoryRun ==
    /\ wpc = "tail"
    /\ \E first \in Leaders(tracker, metrics, BlocsOf(tick, metrics)) :
          tracker' = ScienceVictoryStep(tracker, metrics, BlocsOf(tick, metrics), first)
    /\ events' = PushAll(events, capacity, VictoryEvents(tracker, tracker', tick))
    /\ wpc' = "idle"
    /\ UNCHANGED <<lateVars, tick, schedVars, nationVars, gridVars, capacity, histVars,
                   blasts,
                   in_combat>>

\* battle requests are drawn in the closing ticks, around the end of the race
EndgameWarTicks == (MaxEndgameTicks - 3)..MaxEndgameTicks

NextEndgame ==
    \/ WarTickBegin(MaxEndgameTicks)
    \/ TechnologySystem
    \/ WarfareRun(TechRequestDraws, TechRollDraws, EndgameWarTicks)
    \/ ClimateImpactRun({MildClimate})
    \/ ScienceVictoryRun

SpecEndgame == Init /\ [][NextEndgame]_vars

\* the step is a run of warfare_system
WarfareStepped ==
    \/ wpc = "phases" /\ wpc' = "phase2"
    \/ wpc = "phase1" /\ wpc' = "tail"

\* C16: once the science race has finished, a run of warfare_system changes
\* nothing: no Warfare event, no nation metric, no city count, no blast
\* marker and no InCombat marker is written by it.
C16_NoWarfareAfterTheRace ==
    [][ tracker.finished /\ WarfareStepped =>
           UNCHANGED <<metrics, civ, events, blasts, in_combat>> ]_vars

\* the race has finished, warfare_system has run in a later tick, and battles
\* were fought up to the tick in which the race ended
C16_WarfareRanAfterTheRace ==
    /\ tracker.finished
    /\ wpc = "tail"
    /\ \E i \in 1..Len(events) :
          /\ events[i].kind = "InterstellarVictory"
          /\ events[i].tick < tick
          /\ \E j \in WarfareEntries(events) : events[j].tick = events[i].tick

\* ------------------------------------- diplomacy_system (systems/diplomacy.rs)
\* Scores are in tenths, power scores and trust in hundredths, fear in 1e-4.

\* `a as u32` for the Nation enum (nation.rs 6-12)
Ordinal(n) == CHOOSE i \in 1..Len(Sectors) : Sectors[i] = n

\* ordered_pair: the nation of lower ordinal first
OrderedPair_AsVisited(a, b) == <<a, b>>
OrderedPair(a, b) == IF Ordinal(a) < Ordinal(b) THEN <<a, b>> ELSE <<b, a>>

\* the keys of diplo.relations once every pair of the five nations was
\* visited; the loop takes a and b in the order of metrics.0.keys(), which
\* is the arbitrary order of a HashMap, so a pair may be visited either way
Pairs == {OrderedPair(k[1], k[2]) : k \in {x \in Nations \X Nations : x[1] # x[2]}}

\* power_score
PowerScore(m) == m.military * 4 + m.economy * 3 + m.science * 2 + m.diplomacy

\* let parity_bonus = if balance < 8.0 { 2.0 } else { -1.5 }
ParityBonus(ms, k) ==
    IF Abs(PowerScore(ms[k[1]]) - PowerScore(ms[k[2]])) < 800 THEN 20 ELSE -15

\* entry(key).or_insert(default)
OrInsert_Overwrites(map, key, default) == default
OrInsert(map, key, default) == IF key \in DOMAIN map THEN map[key] ELSE default

RECURSIVE SumOver(_, _)
SumOver(f, keys) ==
    IF keys = {} THEN 0
    ELSE LET k == CHOOSE x \in keys : TRUE IN f[k] + SumOver(f, keys \ {k})

\* "Initialize trust/fear" and "Update pairwise relations"
UpdateRelations(d, ms) ==
    LET bonus == [k \in Pairs |-> ParityBonus(ms, k)]
        with(n) == {k \in Pairs : n \in {k[1], k[2]}}
        lead == [n \in Nations |->
                    [k \in with(n) |->
                        LET o == IF k[1] = n THEN k[2] ELSE k[1]
                        IN (PowerScore(ms[o]) - PowerScore(ms[n])) * 2]]
    IN [d EXCEPT
           !.relations = [k \in Pairs |->
                             Clamp(OrInsert(d.relations, k, 100) + bonus[k], -1000, 1000)],
           !.trust = [n \in Nations |->
                         OrInsert(d.trust, n, 4000) + 5 * SumOver(bonus, with(n))],
           !.fear = [n \in Nations |->
                        OrInsert(d.fear, n, 350000) + SumOver(lead[n], with(n))]]

\* !diplo.alliances.contains(&(a, b)), !diplo.sanctions.contains(&(a, b))
Listed_Never(list, k) == FALSE
Listed(list, k) == k \in Range(list)

\* "Spawn alliances ...": the loop over diplo.relations.clone(), here in the
\* order of `keys` (the map's order is arbitrary); ds is [diplo, events]
RECURSIVE SpawnTreaties(_, _, _, _)
SpawnTreaties(ds, cap, keys, t) ==
    IF keys = <<>> THEN ds
    ELSE LET k == Head(keys)
             score == ds.diplo.relations[k]
             ally == score > 550 /\ ~Listed(ds.diplo.alliances, k)
             allied == IF ally
                       THEN [diplo |-> [ds.diplo EXCEPT !.alliances = Append(@, k)],
                             events |-> WorldEventLogPush(ds.events, cap,
                                                          PlainEvent(t, "Social", k[1]))]
                       ELSE ds
             sanction == score < -450 /\ ~Listed(allied.diplo.sanctions, k)
             sanctioned == IF sanction
                           THEN [diplo |-> [allied.diplo EXCEPT !.sanctions = Append(@, k)],
                                 events |-> WorldEventLogPush(
                                                allied.events, cap,
                                                PlainEvent(t, "MacroShock", "None"))]
                           ELSE allied
         IN SpawnTreaties(sanctioned, cap, Tail(keys), t)

\* the pairs in the order of their ordinals
PairOrder ==
    << <<"Tera", "Sora">>, <<"Tera", "Aqua">>, <<"Tera", "Solar">>, <<"Tera", "Luna">>,
       <<"Sora", "Aqua">>, <<"Sora", "Solar">>, <<"Sora", "Luna">>,
       <<"Aqua", "Solar">>, <<"Aqua", "Luna">>, <<"Solar", "Luna">> >>

\* diplomacy_system
DiplomacySystem(d, log, cap, ms, t) ==
    SpawnTreaties([diplo |-> UpdateRelations(d, ms), events |-> log], cap, PairOrder, t)

MaxDiplomacyTicks == 40

\* the metrics the system reads: the nations of WarWorld, or five alike
LevelWorld == [n \in Nations |-> WarWorld["Aqua"]]
DiplomacyWorlds == {WarWorld, LevelWorld}

\* one tick, as far as diplomacy_system is concerned
DiplomacyTick ==
    /\ tick < MaxDiplomacyTicks
    /\ tick' = AdvanceTick(tick)
    /\ \E world \in DiplomacyWorlds :
          /\ metrics' = [n \in Nations |-> Refreshed(metrics[n], world[n])]
          /\ LET after == DiplomacySystem(diplo, events, capacity, metrics', tick')
             IN diplo' = after.diplo /\ events' = after.events
    /\ UNCHANGED <<apartVars, loopVars, obsVars, config, combatants, fought, fatigue, fallout, capacity, histVars,
                   warVars, schedVars, tracker,
                   civ, npc,
                   extinction_events, gridVars>>

NextDiplomacy == DiplomacyTick

SpecDiplomacy == Init /\ [][NextDiplomacy]_vars

\* how often a pair is listed
Entries(list, k) == Cardinality({i \in 1..Len(list) : list[i] = k})

\* C18: after any number of diplomacy_system runs, a pair whose score is
\* below -45 has exactly one entry in the sanctions list and a pair whose
\* score is above 55 exactly one in the alliances list; no pair is ever
\* listed twice in either.
C18_OneTreatyPerPair ==
    \A k \in DOMAIN diplo.relations :
        /\ diplo.relations[k] < -450 => Entries(diplo.sanctions, k) = 1
        /\ diplo.relations[k] > 550 => Entries(diplo.alliances, k) = 1
        /\ Entries(diplo.sanctions, k) <= 1
        /\ Entries(diplo.alliances, k) <= 1

\* a pair has been below -45 for three runs and another above 55 for many
C18_LongSanctionedAndAllied ==
    /\ \E k \in DOMAIN diplo.relations :
          diplo.relations[k] <= -480 /\ Entries(diplo.sanctions, k) = 1
    /\ \E k \in DOMAIN diplo.relations :
          diplo.relations[k] >= 900 /\ Entries(diplo.alliances, k) = 1

\* ------------------------------ the simulation task and shutdown (main.rs)
\* The task loops over a select! of the interval, the three watch receivers
\* and shutdown_notify.notified().  The branch futures exist from the moment
\* select! is entered until one branch is taken; the body of the taken branch
\* (simulation.tick() among them) runs with no Notified future alive.  The
\* senders of the watch channels live in main until it returns, so the
\* "channel closed" breaks cannot be taken while main awaits the task.

\* the ticks this part counts; further ticks are made but not counted
MaxLoopTicks == 3

\* Notify::notify_waiters: wakes the waiters registered at the call and
\* stores no permit
NotifyWaiters(w) == IF w = "waiting" THEN "notified" ELSE w

\* loop { tokio::select! { ... } }: the branch futures are created
LoopSelect ==
    /\ lpc = "loop"
    /\ lpc' = "select"
    /\ waiter' = "waiting"
    /\ UNCHANGED <<tick, paused, watch, mpc, ctrl_c, skipped, obsVars, engineVars>>

\* _ = interval.tick() => { if !paused { simulation.tick(); } }
IntervalBranch_IgnoresPause ==
    /\ lpc = "select"
    /\ lpc' = "ticking"
    /\ skipped' = paused
    /\ waiter' = "none"
    /\ UNCHANGED <<tick, paused, watch, mpc, ctrl_c, obsVars, engineVars>>
IntervalBranch ==
    /\ lpc = "select"
    /\ lpc' = IF paused THEN "loop" ELSE "ticking"
    /\ skipped' = paused
    /\ waiter' = "none"
    /\ UNCHANGED <<tick, paused, watch, mpc, ctrl_c, obsVars, engineVars>>

\* simulation.tick() returns
TickDone ==
    /\ lpc = "ticking"
    /\ tick' = Min(AdvanceTick(tick), MaxLoopTicks)
    /\ lpc' = "loop"
    /\ UNCHANGED <<paused, waiter, watch, mpc, ctrl_c, skipped, obsVars, engineVars>>

\* result = <receiver>.changed() => { ... } with result.is_ok()
WatchBranch(c) ==
    /\ lpc = "select"
    /\ watch.changed[c]
    /\ watch' = [watch EXCEPT !.changed[c] = FALSE]
    /\ paused' = IF c = "pause" THEN watch.pause ELSE paused
    /\ cosmic' = IF c = "timescale" THEN SetTimescale(cosmic, watch.timescale) ELSE cosmic
    /\ lpc' = "loop"
    /\ waiter' = "none"
    /\ UNCHANGED <<tick, mpc, ctrl_c, skipped, snapshot, view, olock, poisoned, finished,
                   engineVars>>

\* _ = notify_for_simulation.notified() => break
NotifiedBranch ==
    /\ lpc = "select"
    /\ waiter = "notified"
    /\ lpc' = "exited"
    /\ waiter' = "none"
    /\ UNCHANGED <<tick, paused, watch, mpc, ctrl_c, skipped, obsVars, engineVars>>

\* the UI loop sends on a watch channel (speed keys, timescale, pause toggle)
UiSend(c) ==
    /\ mpc = "ui"
    /\ watch' = [watch EXCEPT !.changed[c] = TRUE,
                              !.pause = IF c = "pause" THEN ~watch.pause ELSE @]
    /\ UNCHANGED <<tick, lpc, paused, waiter, mpc, ctrl_c, skipped, obsVars, engineVars>>

\* ctrl_c_task: the signal arrives, ctrlc_notify.notify_waiters(), the task ends
CtrlC ==
    /\ ~ctrl_c
    /\ mpc # "done"
    /\ ctrl_c' = TRUE
    /\ waiter' = NotifyWaiters(waiter)
    /\ UNCHANGED <<tick, lpc, paused, watch, mpc, skipped, obsVars, engineVars>>

\* the UI loop ends: the quit key, or ctrl_c_task.is_finished()
UiQuit ==
    /\ mpc = "ui"
    /\ mpc' = "shutdown"
    /\ UNCHANGED <<tick, lpc, paused, waiter, watch, ctrl_c, skipped, obsVars, engineVars>>

\* shutdown_notify.notify_waiters()
Shutdown ==
    /\ mpc = "shutdown"
    /\ mpc' = "await"
    /\ waiter' = NotifyWaiters(waiter)
    /\ UNCHANGED <<tick, lpc, paused, watch, ctrl_c, skipped, obsVars, engineVars>>

\* simulation_task.await returns
Join ==
    /\ mpc = "await"
    /\ lpc = "exited"
    /\ mpc' = "done"
    /\ UNCHANGED <<tick, lpc, paused, waiter, watch, ctrl_c, skipped, obsVars, engineVars>>

NextShutdown ==
    \/ LoopSelect
    \/ IntervalBranch
    \/ TickDone
    \/ \E c \in Channels : WatchBranch(c)
    \/ NotifiedBranch
    \/ \E c \in Channels : UiSend(c)
    \/ CtrlC
    \/ UiQuit
    \/ Shutdown
    \/ Join

\* the runtime keeps polling the task, the interval keeps firing, tick()
\* returns, and main goes on from one statement to the next
SpecShutdown ==
    /\ Init
    /\ [][NextShutdown]_vars
    /\ WF_vars(LoopSelect)
    /\ WF_vars(IntervalBranch)
    /\ WF_vars(TickDone)
    /\ WF_vars(NotifiedBranch)
    /\ WF_vars(Shutdown)
    /\ WF_vars(Join)

\* C20: whenever the shutdown signal is raised, also while a tick() call is
\* in progress, the loop finishes that tick and then exits, and awaiting the
\* simulation task returns.
C20_ShutdownEndsTheLoop ==
    (mpc = "await") ~> (lpc = "exited" /\ mpc = "done")

\* ------------------- tick(), the published snapshot and its reader
\* (mod.rs 120-134 and 274-318, observer.rs 126-163, main.rs 88-125, 141-152)
\* The simulation task calls tick() from the interval branch; tick() advances
\* the world and then, holding the write guard of the RwLock, assigns the
\* fields of the shared ObserverSnapshot one after the other.  The render
\* loop of main clones the snapshot under the read guard.

\* the ticks this part follows
MaxObserverTicks == 3

\* SPEED_PRESETS '1' and '2' (main.rs 36-49), in thousands of years
Timescales == {250, 1000}

\* the values refresh_observer_snapshot hands to ObserverSnapshot::update
ViewOf(t, c, g) ==
    [tick |-> t, cosmic_age_years |-> c.cosmic_age_years,
     timescale_years_per_tick |-> c.timescale_years_per_tick, grid |-> g]

\* cosmic_time_system: cosmic.cosmic_age_years += cosmic.timescale_years_per_tick
CosmicTimeSystem(c) == [c EXCEPT !.cosmic_age_years = @ + c.timescale_years_per_tick]

\* RwLock: write() waits for every guard to be dropped, read() for the
\* write guard
Writable(l) == ~l.writer /\ l.readers = 0
Readable_Always(l) == TRUE
Readable(l) == ~l.writer

\* the interval fires
TimerFires ==
    /\ paused \/ tick < MaxObserverTicks
    /\ IntervalBranch

\* tick(): time.tick += 1 and schedule.run
ScheduleRun ==
    /\ lpc = "ticking"
    /\ tick' = AdvanceTick(tick)
    /\ cosmic' = CosmicTimeSystem(cosmic)
    /\ finished' = finished \cup {ViewOf(tick', cosmic', hexes)}
    /\ olock' = [olock EXCEPT !.taken = 0]
    /\ lpc' = "refresh"
    /\ UNCHANGED <<paused, waiter, watch, mpc, ctrl_c, skipped, snapshot, view, poisoned,
                   engineVars>>

\* refresh_observer_snapshot: if let Ok(mut snapshot) = self.observer.write();
\* on a poisoned lock write() returns Err, the guard inside the error is
\* dropped at once and the body is skipped
WriteLock ==
    /\ lpc = "refresh"
    /\ Writable(olock)
    /\ olock' = [olock EXCEPT !.taken = @ + 1, !.writer = ~poisoned]
    /\ lpc' = IF poisoned THEN "loop" ELSE "update"
    /\ UNCHANGED <<tick, paused, waiter, watch, mpc, ctrl_c, skipped, cosmic, snapshot, view,
                   poisoned, finished, engineVars>>

\* ObserverSnapshot::update, its first assignments
UpdateHead ==
    /\ lpc = "update"
    /\ snapshot' = [snapshot EXCEPT !.tick = tick,
                                    !.cosmic_age_years = cosmic.cosmic_age_years]
    /\ lpc' = "update2"
    /\ UNCHANGED <<tick, paused, waiter, watch, mpc, ctrl_c, skipped, cosmic, view, olock,
                   poisoned, finished, engineVars>>

\* ObserverSnapshot::update, the other assignments; the write guard is dropped
UpdateTail ==
    /\ lpc = "update2"
    /\ snapshot' = [snapshot EXCEPT
                        !.timescale_years_per_tick = cosmic.timescale_years_per_tick,
                        !.grid = hexes]
    /\ olock' = [olock EXCEPT !.writer = FALSE]
    /\ lpc' = "loop"
    /\ UNCHANGED <<tick, paused, waiter, watch, mpc, ctrl_c, skipped, cosmic, view,
                   poisoned, finished, engineVars>>

\* render loop: observer.read().expect("Observer lock is poisoned")
ReadLock ==
    /\ mpc = "ui"
    /\ Readable(olock)
    /\ mpc' = IF poisoned THEN "panicked" ELSE "clone"
    /\ olock' = IF poisoned THEN olock ELSE [olock EXCEPT !.readers = @ + 1]
    /\ UNCHANGED <<tick, lpc, paused, waiter, watch, ctrl_c, skipped, cosmic, snapshot, view,
                   poisoned, finished, engineVars>>

\* .clone(), and the read guard is dropped at the end of the statement
CloneDone ==
    /\ mpc = "clone"
    /\ view' = <<snapshot>>
    /\ olock' = [olock EXCEPT !.readers = @ - 1]
    /\ mpc' = "ui"
    /\ UNCHANGED <<tick, lpc, paused, waiter, watch, ctrl_c, skipped, cosmic, snapshot,
                   poisoned, finished, engineVars>>

\* a speed preset key: timescale_tx.send(preset.years_per_tick)
UiSendTimescale(v) ==
    /\ mpc = "ui"
    /\ watch' = [watch EXCEPT !.changed["timescale"] = TRUE, !.timescale = v]
    /\ UNCHANGED <<tick, lpc, paused, waiter, mpc, ctrl_c, skipped, obsVars, engineVars>>

\* the observer handed to with_observer is a lock that a holder of the Arc
\* may have poisoned
InitObserver == InitResources /\ capacity = DefaultLogCapacity /\ poisoned \in BOOLEAN

NextObserver ==
    \/ LoopSelect
    \/ TimerFires
    \/ ScheduleRun
    \/ WriteLock
    \/ UpdateHead
    \/ UpdateTail
    \/ \E c \in {"timescale", "pause"} : WatchBranch(c)
    \/ UiSend("pause")
    \/ \E v \in Timescales : UiSendTimescale(v)
    \/ ReadLock
    \/ CloneDone

SpecObserver == InitObserver /\ [][NextObserver]_vars

\* C21: while the loop's local pause flag is true no step advances the world
\* tick, changes the published snapshot or enters tick(), and no write guard
\* keeps a reader from the snapshot; tick() is entered only from a state in
\* which the flag is false.
C21_PausedLoopDoesNotTick ==
    [][/\ paused => /\ tick' = tick
                    /\ snapshot' = snapshot
                    /\ lpc' # "ticking"
                    /\ Readable(olock) /\ Readable(olock')
       /\ (lpc # "ticking" /\ lpc' = "ticking") => ~paused]_vars

\* the timer has fired on a paused loop after a tick was published and read
C21_TimerFiredWhilePaused ==
    /\ paused /\ skipped
    /\ lpc = "loop"
    /\ tick >= 1
    /\ snapshot.tick = tick
    /\ view = <<snapshot>>

\* the loop is between two calls of tick()
BetweenTicks == lpc \in {"loop", "select", "ticking", "exited"}

\* C22 (as stated): every clone the consumer takes under the read lock is
\* the complete state of one finished tick.
C22_CloneIsAFinishedTick ==
    view # <<>> => view[1] \in finished

\* C22: every call of tick() takes the write lock exactly once, and a clone
\* taken under the read lock is either the snapshot the observer was
\* constructed with, when no tick has been published yet, or the complete
\* state of one finished tick; it never mixes fields of two ticks.
C22_CloneIsWholeAndLockedOncePerTick ==
    /\ view # <<>> => view[1] \in finished \cup {ObserverSnapshotNew}
    /\ (BetweenTicks /\ tick > 0) => olock.taken = 1

\* the consumer holds the clone of the tick before while the snapshot is
\* half written with the next one
C22_CloneWhileHalfWritten ==
    /\ lpc = "update2"
    /\ tick >= 2
    /\ view # <<>> /\ view[1].tick = tick - 1
    /\ snapshot.tick = tick
    /\ snapshot.timescale_years_per_tick # cosmic.timescale_years_per_tick

\* C23: when the lock of the shared snapshot is poisoned, no tick() returns
\* to the loop with its publish skipped unless the failure has ended the
\* process; the loop never goes on over a stale snapshot.
C23_PublishFailureIsFatal ==
    (poisoned /\ BetweenTicks /\ tick > 0) => (mpc = "panicked" \/ snapshot.tick = tick)

\* the step is the timescale branch of the select!, which calls set_timescale
\* with the value borrowed from the channel
TimescaleStepped ==
    /\ lpc = "select" /\ lpc' = "loop"
    /\ watch.changed["timescale"] /\ ~watch'.changed["timescale"]

\* C25: a call of set_timescale(v) between two ticks sets
\* timescale_years_per_tick to v and leaves the world tick, the cosmic age,
\* the extinction count, the nation metrics, the grid, the event log, the
\* published snapshot and every other resource as they were; no other step
\* changes the timescale, and the next tick adds it to the cosmic age.
C25_SetTimescaleChangesOnlyTheTimescale ==
    [][/\ TimescaleStepped =>
            /\ cosmic'.timescale_years_per_tick = watch.timescale
            /\ cosmic'.cosmic_age_years = cosmic.cosmic_age_years
            /\ UNCHANGED <<tick, snapshot, finished, engineVars>>
       /\ ~TimescaleStepped =>
            cosmic'.timescale_years_per_tick = cosmic.timescale_years_per_tick
       /\ tick' # tick =>
            cosmic'.cosmic_age_years =
                cosmic.cosmic_age_years + cosmic.timescale_years_per_tick]_vars

\* after a first tick of 1000 the timescale was set to 250 and the second
\* tick has added 250
C25_NextTickUsedTheNewTimescale ==
    /\ tick = 2
    /\ cosmic.timescale_years_per_tick = 250
    /\ cosmic.cosmic_age_years = 1250

\* ------------------------- SimulationWorld::with_observer (mod.rs 44-118)
\* The constructor takes any SimulationConfig: it inserts the default
\* resources, copies years_per_tick into the CosmicTimeline and seeds the
\* grid from grid_radius (an i32).  It returns Self; there is no error path.

\* the configurations tried: grid_radius negative, zero, small and the
\* model's usual radius; years_per_tick negative, zero and the default
Configs == [grid_radius : {-1, 0, 1, GridRadius}, years_per_tick : {-1000, 0, 1000}]

\* a new world is constructed from cfg, in place of the one ticked so far;
\* the observer and the channels of main are the caller's
WithObserver(cfg) ==
    /\ wpc = "idle"
    /\ config' = cfg
    /\ tick' = 0
    /\ calls' = 0 /\ pc' = "idle" /\ runs' = NoRuns
    /\ tracker' = TrackerDefault
    /\ metrics' = AllNationMetricsDefault
    /\ civ' = AllNationCivStateDefault
    /\ npc' = "idle"
    /\ extinction_events' = 0
    /\ hexes' = SeedGrid(cfg.grid_radius)
    /\ gpc' = "idle"
    /\ events' = <<>>
    /\ capacity' = DefaultLogCapacity
    /\ histories' = HistoriesDefault
    /\ hpc' = "idle"
    /\ blasts' = EmptyMap
    /\ in_combat' = EmptyMap
    /\ combatants' = EmptyMap
    /\ fought' = <<>>
    /\ fatigue' = 0
    /\ fallout' = EmptyMap
    /\ behavior' = [e \in Entities |-> Template(e).state]
    /\ threshold' = <<0, 0, 0, 0>>
    /\ tilted' = FALSE
    /\ epc' = "idle"
    /\ world_blocs' = EmptyMap
    /\ wpc' = "idle"
    /\ diplo' = DiplomaticRelationsDefault
    /\ cosmic' = [CosmicTimelineDefault EXCEPT !.timescale_years_per_tick = cfg.years_per_tick]
    /\ UNCHANGED <<loopVars, snapshotTick, snapshot, view, olock, poisoned, finished>>

\* worlds are constructed, and ticked as far as technology and warfare go
NextConstruct ==
    \/ \E cfg \in Configs : WithObserver(cfg)
    \/ NextTech

SpecConstruct == Init /\ [][NextConstruct]_vars

\* C24: every world that exists was constructed from a configuration with a
\* positive grid radius and a positive years-per-tick, and its hex grid is
\* neither empty nor a single hex.
C24_InvalidConfigIsRejected ==
    /\ config.grid_radius > 0
    /\ config.years_per_tick > 0
    /\ Cardinality(hexes) > 1

\* C26: a world on which no tick has run has exactly 5 nations, each with
\* population 3,000,000 split as youth 900,000 / adult 1,800,000 / elder
\* 300,000, economy 50, science 20, era Dawn, weapon tier KnappedStone and
\* is_destroyed false.
C26_FreshWorldDefaults ==
    tick = 0 =>
        /\ Cardinality(DOMAIN metrics) = 5
        /\ \A n \in DOMAIN metrics :
              /\ metrics[n].population = 3000000
              /\ metrics[n].youth = 900000
              /\ metrics[n].adult = 1800000
              /\ metrics[n].elder = 300000
              /\ metrics[n].economy = 50
              /\ metrics[n].science = 20
              /\ metrics[n].era = "Dawn"
              /\ metrics[n].weapon_tier = "KnappedStone"
              /\ ~metrics[n].is_destroyed

\* a world constructed with radius 1 on which no tick has run yet
C26_FreshSmallWorld ==
    /\ tick = 0
    /\ config.grid_radius = 1
    /\ Cardinality(hexes) = 7

\* C27: every battle that warfare_system resolves is between two nations
\* that are both non-destroyed and both have military > 1 when the loop
\* comes to that battle, whatever earlier battles of the same run did.
C27_BattlesOnlyBetweenArmedLiveNations ==
    \A i \in 1..Len(fought) :
        /\ ~fought[i].destroyed_a /\ ~fought[i].destroyed_b
        /\ fought[i].military_a > 1 /\ fought[i].military_b > 1

\* ------------------------ combat_cleanup_system (systems/warfare.rs 33-42)
\* Third system of chain 1, before technology and warfare.  Its remove
\* commands and the insert commands of warfare_system are applied in the
\* order of the systems, before tick() publishes.

\* in_combat.ticks_remaining.saturating_sub(1) for every entity with InCombat
CleanupInCombat(ic) ==
    [c \in {d \in DOMAIN ic : SatSub(ic[d], 1) # 0} |-> SatSub(ic[c], 1)]

\* commands.entity(entity).remove::<Combatants>() for the entities whose
\* counter has reached 0
CleanupCombatants_Keeps(ic, cs) == cs
CleanupCombatants(ic, cs) ==
    [c \in {d \in DOMAIN cs : ~(d \in DOMAIN ic /\ SatSub(ic[d], 1) = 0)} |-> cs[c]]

\* the ticks this part follows, and those in which battle requests are drawn
MaxCombatTicks == 8
CombatWarTicks == {1, 3}

CombatRequestDraws ==
    { <<>>,
      << [a |-> "Tera", b |-> "Sora", a_wins |-> TRUE] >>,
      << [a |-> "Tera", b |-> "Aqua", a_wins |-> TRUE] >> }

\* time.tick += 1 and the systems before combat_cleanup_system
CombatTickBegin ==
    /\ wpc = "idle"
    /\ tick < MaxCombatTicks
    /\ tick' = AdvanceTick(tick)
    /\ metrics' = [n \in Nations |-> Refreshed(metrics[n], WarWorld[n])]
    /\ wpc' = "cleanup"
    /\ UNCHANGED <<lateVars, schedVars, tracker, civ, npc, extinction_events, gridVars,
                   logVars, histVars, blasts, in_combat>>

CombatCleanupRun ==
    /\ wpc = "cleanup"
    /\ in_combat' = CleanupInCombat(in_combat)
    /\ combatants' = CleanupCombatants(in_combat, combatants)
    /\ wpc' = "technology"
    /\ UNCHANGED <<apartVars, diplo, loopVars, obsVars, config, fought, fatigue, fallout, tick, schedVars, tracker,
                   nationVars, gridVars, logVars, histVars, blasts>>

NextCombat ==
    \/ CombatTickBegin
    \/ CombatCleanupRun
    \/ TechnologySystem
    \/ WarfareRun(CombatRequestDraws, TechRollDraws, CombatWarTicks)
    \/ ClimateImpactRun({MildClimate})
    \/ ExtinctionRun({0})

SpecCombat == Init /\ [][NextCombat]_vars

\* the hexes a step of warfare_system tagged: those whose Combatants or
\* counter the step wrote
Tagged ==
    {c \in DOMAIN in_combat' : c \notin DOMAIN in_combat \/ in_combat'[c] > in_combat[c]}

\* C28: a marker is inserted with 5 ticks remaining; a hex that is not
\* tagged again has its counter lowered by one in each tick's cleanup and
\* loses InCombat and Combatants in the cleanup in which the counter reaches
\* zero; no other step changes a marker.  In every published state each
\* marker has a counter from 1 to 5, and the hexes with InCombat are the
\* hexes with Combatants.
C28_MarkersCountDownTogether ==
    [][/\ wpc = "cleanup" =>
            \A c \in DOMAIN in_combat :
                IF in_combat[c] > 1
                THEN /\ c \in DOMAIN in_combat' /\ in_combat'[c] = in_combat[c] - 1
                     /\ c \in DOMAIN combatants'
                ELSE c \notin DOMAIN in_combat' /\ c \notin DOMAIN combatants'
       /\ wpc # "cleanup" =>
            \A c \in DOMAIN in_combat \cup DOMAIN in_combat' :
                \/ c \in Tagged /\ in_combat'[c] = 5
                \/ /\ c \in DOMAIN in_combat /\ c \in DOMAIN in_combat'
                   /\ in_combat'[c] = in_combat[c]
       /\ wpc' = "idle" =>
            /\ DOMAIN in_combat' = DOMAIN combatants'
            /\ \A c \in DOMAIN in_combat' : in_combat'[c] \in 1..5]_vars

\* one border hex is on its last tick while another was tagged again later
C28_LastTickAndRetagged ==
    /\ wpc = "idle"
    /\ \E c \in DOMAIN in_combat : in_combat[c] = 1 /\ combatants[c] = <<"Tera", "Sora">>
    /\ \E c \in DOMAIN in_combat : in_combat[c] = 3 /\ combatants[c] = <<"Tera", "Aqua">>

\* the EraShift events a step appended for nation n
NewEraShifts(n) ==
    {i \in NewEntries : events'[i].kind = "EraShift" /\ events'[i].nation = n}

\* C29: a nation's era changes only in a run of technology_system and only
\* to the next era, whose gates the nation's military and the stocks as
\* accumulated and decayed in that run meet (the stocks left after the
\* advance are those less 0.4 and 0.3 of the gates); the advance sets the
\* weapon tier of the new era and appends exactly one EraShift event for the
\* nation, a nation that stays in its era gets none, and unlocked_techs holds
\* the unlocks of the new era and no technology twice.
C29_EraAdvancesThroughItsGates ==
    [][\A n \in Nations :
          IF metrics'[n].era # metrics[n].era
          THEN LET tier == TechTier(metrics'[n].era)
               IN /\ wpc = "technology"
                  /\ metrics'[n].era = EraNext(metrics[n].era)
                  /\ metrics'[n].research_stock + (tier.science_gate * 4) \div 10
                        >= tier.science_gate
                  /\ metrics'[n].culture_stock + (tier.culture_gate * 3) \div 10
                        >= tier.culture_gate
                  /\ metrics'[n].military = metrics[n].military
                  /\ metrics[n].military >= tier.military_gate
                  /\ metrics'[n].weapon_tier = tier.weapon_tier
                  /\ Cardinality(NewEraShifts(n)) = 1
                  /\ Range(tier.unlocks) \subseteq Range(metrics'[n].unlocked_techs)
                  /\ Cardinality(Range(metrics'[n].unlocked_techs))
                        = Len(metrics'[n].unlocked_techs)
          ELSE /\ NewEraShifts(n) = {}
               /\ metrics'[n].unlocked_techs = metrics[n].unlocked_techs]_vars

\* a nation has climbed every rung while another is held at the start by its
\* military alone
C29_TopOfTheLadderAndHeldBack ==
    /\ \E n \in Nations :
          /\ metrics[n].era = "Nuclear"
          /\ Len(metrics[n].unlocked_techs) = 8
    /\ \E n \in Nations :
          /\ metrics[n].era = "Dawn"
          /\ metrics[n].research_stock >= 35 /\ metrics[n].culture_stock >= 20
          /\ metrics[n].military < 10

\* ------------------------------ the end of the Moon phase (victory.rs 89-128)
\* The race of the thriving world, in whose closing ticks Tera, one of the
\* two nations that lead it, may stand at population 0 and is then skipped
\* by the loop.

\* the ticks this part follows; Tera may stand at population 0 in the last 14
MaxMoonTicks == 64
DepopulatedFrom == MaxMoonTicks - 14

MoonTick(world) ==
    /\ tick < MaxMoonTicks
    /\ world = "depopulated" => tick >= DepopulatedFrom
    /\ VictoryTick(world)

NextMoon == \E world \in {"thriving", "depopulated"} : MoonTick(world)

SpecMoon == Init /\ [][NextMoon]_vars

\* C30: in the tick in which the Moon phase completes, the recorded winner
\* is a nation that is not destroyed, whose progress reached the goal in
\* that tick, and no nation that is not destroyed has more progress; the
\* phase is Mars from that tick on, and the winner is never changed later.
C30_MoonWinnerLeadsAndStays ==
    [][/\ (~tracker.moon_done /\ tracker'.moon_done) =>
            LET w == tracker'.winner
            IN /\ w \in Nations
               /\ ~metrics'[w].is_destroyed
               /\ tracker.progress[w] < Goal /\ tracker'.progress[w] >= Goal
               /\ \A n \in Nations :
                     ~metrics'[n].is_destroyed =>
                         tracker'.progress[n] <= tracker'.progress[w]
               /\ tracker'.space_stage = "Mars"
       /\ tracker.moon_done =>
            /\ tracker'.moon_done
            /\ tracker'.winner = tracker.winner]_vars

\* Luna has won the Moon while Tera, skipped in the closing ticks, stood
\* short of the goal, and the race has gone on into the Mars phase
C30_WonWhileTheRivalWasSkipped ==
    /\ tracker.moon_done
    /\ tracker.winner = "Luna"
    /\ tracker.progress["Tera"] < Goal
    /\ tracker.mars_progress > 0

\* ------------------------- the race after the Moon (victory.rs 129-197)
\* The race of the thriving world; once the Moon is won the nations may be
\* hit by extinction resets, and Tera, one of the nations that can win the
\* Moon, may stand at population 0.

MaxRaceTicks == 450

RaceTick(world) ==
    /\ tick < MaxRaceTicks
    /\ world # "thriving" => tracker.moon_done
    /\ VictoryTick(world)

NextRace == \E world \in {"thriving", "aftermath", "depopulated"} : RaceTick(world)

SpecRace == Init /\ [][NextRace]_vars

\* what the three ramps still have to cover
RaceRemaining(tr) ==
    (MarsGoal - tr.mars_progress) + (JovianGoal - tr.jovian_progress)
    + (InterstellarGoal - tr.interstellar_progress)

\* C31: once the Moon phase has completed, every tick before `finished`
\* strictly raises the progress of the phase the race is in (Mars, Jovian,
\* Interstellar), whatever the nations' metrics are; a ramp that reaches its
\* goal hands over to the next phase in that tick, and the last one sets
\* finished.  The distance left over the three ramps falls in every such
\* tick, so finished is reached after finitely many ticks.
C31_RampsRiseUntilFinished ==
    [][(tracker.moon_done /\ ~tracker.finished) =>
          /\ RaceRemaining(tracker') < RaceRemaining(tracker)
          /\ tracker.space_stage = "Mars" =>
                /\ tracker'.mars_progress > tracker.mars_progress
                /\ tracker'.space_stage =
                      (IF tracker'.mars_progress >= MarsGoal THEN "Jovian" ELSE "Mars")
          /\ tracker.space_stage = "Jovian" =>
                /\ tracker'.jovian_progress > tracker.jovian_progress
                /\ tracker'.space_stage =
                      (IF tracker'.jovian_progress >= JovianGoal
                       THEN "Interstellar" ELSE "Jovian")
          /\ tracker.space_stage = "Interstellar" =>
                /\ tracker'.interstellar_progress > tracker.interstellar_progress
                /\ tracker'.finished = (tracker'.interstellar_progress >= InterstellarGoal)
          /\ tracker'.finished = (RaceRemaining(tracker') = 0)]_vars

\* the race has finished for Tera, who stands at population 0, after
\* extinction resets in the later phases
C31_FinishedOverTheFallenWinner ==
    /\ tracker.finished
    /\ tracker.winner = "Tera"
    /\ metrics["Tera"].population = 0
    /\ extinction_events = MaxExtinctions

\* ------------- the decay of the blast markers (nuclear.rs, warfatigue.rs)
\* nuclear_decay_system follows warfare_system in chain 1; war_fatigue_system
\* stands in chain 2 and is ordered against neither.

\* nuclear_decay_system: a timer at 0 is removed, any other is lowered by one
NuclearDecay(bl) ==
    [c \in {d \in DOMAIN bl : bl[d] # 0} |-> bl[c] - 1]

\* war_fatigue_system, lines 21-26: every timer above 0 is lowered by one
FatigueBlasts(bl) ==
    [c \in DOMAIN bl |-> IF bl[c] > 0 THEN bl[c] - 1 ELSE bl[c]]

\* the spike of one of the last 8 events (lines 29-52), in 1e-2; the
\* MacroShock events of cosmic.rs carry no digit in projected_impact
EventSpike(evt) ==
    IF evt.kind = "Warfare"
    THEN Min(evt.casualties \div 1000, 1200) + (IF evt.nuclear THEN 800 ELSE 0)
    ELSE 0

RECURSIVE SpikeSum(_, _)
SpikeSum(log, k) ==
    IF k = 0 \/ Len(log) = 0 THEN 0
    ELSE EventSpike(log[Len(log)]) + SpikeSum(SubSeq(log, 1, Len(log) - 1), k - 1)

\* WarFatigue.intensity after the run, lines 15-54
FatigueIntensity(f, bl, log) ==
    LET decayed == (f * 98) \div 100
        base == IF decayed < 100 THEN 0 ELSE decayed
        live == Cardinality({c \in DOMAIN bl : bl[c] > 0})
    IN Clamp(base + 150 * live + SpikeSum(log, 8), 0, 10000)

\* lines 59-64: the soft penalty, on every nation
FatiguePenalty(m, f) ==
    [m EXCEPT !.economy = Whole(m.economy * 10000 - f * 2),
              !.culture = Whole(m.culture * 10000 - f),
              !.military = Whole(m.military * 10000 - f \div 2)]

\* the ticks this part follows; a strike is requested in one of them
MaxFalloutTicks == 14
FalloutWarTicks == {MaxFalloutTicks - 6}

FalloutRollDraws ==
    { [rate |-> 6000, escalate |-> FALSE, many |-> FALSE, mutual |-> FALSE],
      [rate |-> 11999, escalate |-> TRUE, many |-> TRUE, mutual |-> FALSE] }

\* time.tick += 1 and the systems before technology_system
FalloutTickBegin ==
    /\ wpc = "idle"
    /\ tick < MaxFalloutTicks
    /\ tick' = AdvanceTick(tick)
    /\ metrics' = [n \in Nations |-> Refreshed(metrics[n], WarWorld[n])]
    /\ fallout' = blasts
    /\ wpc' = "technology"
    /\ UNCHANGED <<apartVars, diplo, loopVars, obsVars, config, combatants, fought, fatigue,
                   schedVars, tracker, civ, npc, extinction_events, gridVars,
                   logVars, histVars, blasts, in_combat>>

NuclearDecayRun ==
    /\ wpc \in {"phase2", "tail"}
    /\ blasts' = NuclearDecay(blasts)
    /\ wpc' = IF wpc = "phase2" THEN "decayed" ELSE "idle"
    /\ UNCHANGED <<lateVars, tick, schedVars, tracker, nationVars, gridVars, logVars,
                   histVars, in_combat>>

WarFatigueRun ==
    /\ wpc \in {"phases", "phase2", "decayed"}
    /\ blasts' = FatigueBlasts(blasts)
    /\ fatigue' = FatigueIntensity(fatigue, blasts, events)
    /\ histories' = PushSeries(histories, FatigueSeries, tick)
    /\ metrics' = [n \in Nations |-> FatiguePenalty(metrics[n], fatigue')]
    /\ wpc' = CASE wpc = "phases" -> "phase1"
                [] wpc = "phase2" -> "tail"
                [] wpc = "decayed" -> "idle"
    /\ UNCHANGED <<calmVars, tick, schedVars, tracker, civ, npc, extinction_events,
                   gridVars, logVars, hpc, in_combat>>

NextFallout ==
    \/ FalloutTickBegin
    \/ TechnologySystem
    \/ WarfareRun(TechRequestDraws, FalloutRollDraws, FalloutWarTicks)
    \/ NuclearDecayRun
    \/ WarFatigueRun

SpecFallout == Init /\ [][NextFallout]_vars

\* C32: over a tick without a strike, a blast marker's timer falls by
\* exactly one, a marker whose timer stood at zero when the tick began is
\* removed in it, and no marker appears.
C32_TimerFallsByOnePerTick ==
    (wpc = "idle" /\ tick \notin FalloutWarTicks) =>
        /\ DOMAIN blasts \subseteq DOMAIN fallout
        /\ \A c \in DOMAIN fallout :
              IF fallout[c] = 0 THEN c \notin DOMAIN blasts
              ELSE c \in DOMAIN blasts /\ blasts[c] = fallout[c] - 1

\* ------------------------------ the extinction reset (cosmic.rs 41-109)

\* the numeric fields of the metrics and of the civ state the reset may write
ShrunkOrKept(m, c, after_m, after_c) ==
    /\ after_m.population <= m.population
    /\ after_m.economy <= m.economy
    /\ after_m.culture <= m.culture
    /\ after_m.military <= m.military
    /\ after_m.science <= m.science
    /\ after_m.research_stock <= m.research_stock
    /\ after_m.culture_stock <= m.culture_stock
    /\ after_m.territory <= m.territory
    /\ after_c.cities <= c.cities
    /\ after_c.happiness <= c.happiness
    /\ after_c.production <= c.production
    /\ after_c.stability <= c.stability

\* C33: an extinction reset raises extinction_events by exactly 1, leaves
\* every is_destroyed flag as it was, changes nothing of a destroyed
\* nation's metrics and civ state, and raises no value of a live nation.
C33_ResetOnlyShrinksTheLiving ==
    [][extinction_events' # extinction_events =>
          /\ extinction_events' = extinction_events + 1
          /\ \A n \in Nations :
                /\ metrics'[n].is_destroyed = metrics[n].is_destroyed
                /\ metrics[n].is_destroyed => metrics'[n] = metrics[n] /\ civ'[n] = civ[n]
                /\ ~metrics[n].is_destroyed =>
                      ShrunkOrKept(metrics[n], civ[n], metrics'[n], civ'[n])]_vars

\* ------------------- the minds of the entities (systems/ai.rs, missions.rs)
\* Weights and thresholds are in 1e-4, modifiers in 1e-2 (the personality
\* modifier in 1e-4).  Labels written in Hangul in the source are written
\* here in Latin letters: saebyeok (dawn), hannat (midday), haejilnyeok
\* (dusk), kkotpium gyejeol (flower season), bulkkot jeoljeong (flame peak),
\* jaetbul naerim (ember fall).

\* EpochCadence of WorldMetadata::default (world.rs 436-439)
DaySegments == <<"Dawn", "Midday", "Dusk">>
Seasons == <<"Flower Bloom", "Sunburst Peak", "Ashfall">>

\* WorldMetadata::epoch_for_tick
EpochForTick(t) ==
    [segment |-> DaySegments[(t % Len(DaySegments)) + 1],
     season |-> Seasons[((t \div Len(DaySegments)) % Len(Seasons)) + 1]]

\* transition_options: the table of a state, in its order
TransitionOptions(state) ==
    CASE state = "Idle" ->
            << [state |-> "Idle", weight |-> 2000], [state |-> "Explore", weight |-> 3000],
               [state |-> "Trade", weight |-> 2500], [state |-> "Rest", weight |-> 2500] >>
      [] state = "Explore" ->
            << [state |-> "Explore", weight |-> 2000], [state |-> "Gather", weight |-> 3500],
               [state |-> "Hunt", weight |-> 2500], [state |-> "Trade", weight |-> 2000] >>
      [] state = "Gather" ->
            << [state |-> "Gather", weight |-> 2500], [state |-> "Trade", weight |-> 4000],
               [state |-> "Rest", weight |-> 2000], [state |-> "Explore", weight |-> 1500] >>
      [] state = "Trade" ->
            << [state |-> "Trade", weight |-> 3500], [state |-> "Rest", weight |-> 2000],
               [state |-> "Idle", weight |-> 1500], [state |-> "Explore", weight |-> 3000] >>
      [] state = "Hunt" ->
            << [state |-> "Hunt", weight |-> 2500], [state |-> "Rest", weight |-> 3000],
               [state |-> "Gather", weight |-> 2000], [state |-> "Trade", weight |-> 2500] >>
      [] state = "Rest" ->
            << [state |-> "Rest", weight |-> 3000], [state |-> "Idle", weight |-> 3500],
               [state |-> "Explore", weight |-> 2000], [state |-> "Trade", weight |-> 1500] >>

\* personality_modifier, in 1e-4
PersonalityModifier(p, state) ==
    Clamp(10000 +
          (CASE state = "Hunt" -> p.aggressive * 60 - p.cautious * 30
             [] state = "Trade" -> p.social * 65 + p.curious * 15
             [] state = "Explore" -> p.curious * 60 - p.cautious * 20
             [] state = "Gather" -> p.curious * 20 + p.cautious * 20
             [] state = "Rest" -> p.cautious * 40 - p.aggressive * 20
             [] state = "Idle" -> (p.cautious - p.curious) * 10),
          1000, 25000)

\* WorldMetadata::biome_behavior_bias over the behavior_bias maps of
\* WorldMetadata::default
BiomeBehaviorBias(biome, state) ==
    CASE biome = "Forest" /\ state = "Explore" -> 125
      [] biome = "Forest" /\ state = "Gather" -> 120
      [] biome = "Forest" /\ state = "Hunt" -> 115
      [] biome = "Forest" /\ state = "Rest" -> 95
      [] biome = "Plains" /\ state = "Trade" -> 120
      [] biome = "Plains" /\ state = "Gather" -> 110
      [] biome = "Plains" /\ state = "Explore" -> 95
      [] biome = "Plains" /\ state = "Rest" -> 105
      [] biome = "Village" /\ state = "Trade" -> 110
      [] biome = "Village" /\ state = "Rest" -> 120
      [] biome = "Village" /\ state = "Idle" -> 105
      [] biome = "Market" /\ state = "Trade" -> 135
      [] biome = "Market" /\ state = "Idle" -> 90
      [] biome = "Market" /\ state = "Explore" -> 95
      [] biome = "Market" /\ state = "Rest" -> 90
      [] OTHER -> 100

\* WorldMetadata::faction_behavior_modifier over the behavior_modifiers maps
FactionBehaviorModifier(faction, state) ==
    CASE faction = "MerchantGuild" /\ state = "Trade" -> 140
      [] faction = "MerchantGuild" /\ state = "Idle" -> 90
      [] faction = "MerchantGuild" /\ state = "Explore" -> 95
      [] faction = "BanditClans" /\ state = "Hunt" -> 145
      [] faction = "BanditClans" /\ state = "Explore" -> 110
      [] faction = "BanditClans" /\ state = "Trade" -> 70
      [] faction = "BanditClans" /\ state = "Rest" -> 85
      [] faction = "ExplorersLeague" /\ state = "Explore" -> 150
      [] faction = "ExplorersLeague" /\ state = "Gather" -> 125
      [] faction = "ExplorersLeague" /\ state = "Trade" -> 90
      [] faction = "ExplorersLeague" /\ state = "Rest" -> 95
      [] faction = "TempleOfSuns" /\ state = "Rest" -> 140
      [] faction = "TempleOfSuns" /\ state = "Trade" -> 105
      [] faction = "TempleOfSuns" /\ state = "Explore" -> 90
      [] faction = "TempleOfSuns" /\ state = "Hunt" -> 70
      [] OTHER -> 100

\* epoch_modifier: match segment { ... }
EpochModifier_EnglishLabels(segment, state) ==
    CASE segment = "Dawn" /\ state \in {"Explore", "Gather"} -> 115
      [] segment = "Dawn" /\ state = "Rest" -> 85
      [] segment = "Midday" /\ state = "Trade" -> 125
      [] segment = "Midday" /\ state = "Idle" -> 75
      [] segment = "Dusk" /\ state = "Hunt" -> 125
      [] segment = "Dusk" /\ state = "Rest" -> 110
      [] segment = "Dusk" /\ state = "Trade" -> 75
      [] OTHER -> 100
EpochModifier(segment, state) ==
    CASE segment = "saebyeok" /\ state \in {"Explore", "Gather"} -> 115
      [] segment = "saebyeok" /\ state = "Rest" -> 85
      [] segment = "hannat" /\ state = "Trade" -> 125
      [] segment = "hannat" /\ state = "Idle" -> 75
      [] segment = "haejilnyeok" /\ state = "Hunt" -> 125
      [] segment = "haejilnyeok" /\ state = "Rest" -> 110
      [] segment = "haejilnyeok" /\ state = "Trade" -> 75
      [] OTHER -> 100

\* season_modifier: match season { ... }
SeasonModifier(season, state) ==
    CASE season = "kkotpium gyejeol" /\ state = "Gather" -> 120
      [] season = "kkotpium gyejeol" /\ state = "Trade" -> 105
      [] season = "bulkkot jeoljeong" /\ state \in {"Explore", "Hunt"} -> 110
      [] season = "bulkkot jeoljeong" /\ state = "Rest" -> 95
      [] season = "jaetbul naerim" /\ state = "Rest" -> 125
      [] season = "jaetbul naerim" /\ state = "Trade" -> 90
      [] OTHER -> 100

\* "Macro goal tilt", lines 144-151
GoalTilt(race_finished, state) ==
    IF race_finished THEN 100
    ELSE CASE state = "Trade" -> 125
           [] state = "Gather" -> 110
           [] state = "Hunt" -> 80
           [] OTHER -> 100

\* lines 136-155: the weight of one candidate of entity e
CandidateWeight(e, option, t, race_finished) ==
    LET tp == Template(e)
        ep == EpochForTick(t)
        w1 == MulDiv(option.weight, PersonalityModifier(tp, option.state), 10000)
        w2 == (w1 * BiomeBehaviorBias(tp.biome, option.state)) \div 100
        w3 == (w2 * FactionBehaviorModifier(tp.faction, option.state)) \div 100
        w4 == (w3 * EpochModifier(ep.segment, option.state)) \div 100
        w5 == (w4 * SeasonModifier(ep.season, option.state)) \div 100
        w6 == (w5 * GoalTilt(race_finished, option.state)) \div 100
    IN Max(w6, 100)

\* weighted_options of entity e in state `state`
WeightedOptions(e, state, t, race_finished) ==
    [i \in 1..4 |->
        [state |-> TransitionOptions(state)[i].state,
         weight |-> CandidateWeight(e, TransitionOptions(state)[i], t, race_finished)]]

\* the sum of the first i weights
RECURSIVE Cumulative(_, _)
Cumulative(options, i) ==
    IF i = 0 THEN 0 ELSE options[i].weight + Cumulative(options, i - 1)

\* lines 167-173: threshold -= weight; if threshold <= 0.0 the candidate is
\* taken; when the loop ends without a candidate the state stays
RECURSIVE Pick_SkipsOnTie(_, _, _, _)
Pick_SkipsOnTie(options, i, left, state) ==
    IF i > Len(options) THEN state
    ELSE IF left - options[i].weight < 0 THEN options[i].state
    ELSE Pick_SkipsOnTie(options, i + 1, left - options[i].weight, state)
RECURSIVE Pick(_, _, _, _)
Pick(options, i, left, state) ==
    IF i > Len(options) THEN state
    ELSE IF left - options[i].weight <= 0 THEN options[i].state
    ELSE Pick(options, i + 1, left - options[i].weight, state)

\* six thresholds out of rng.gen_range(0.0..total_weight): the ends of the
\* range, the cumulative weights and a value inside the second candidate's
\* share
ThresholdDraw(options, kind) ==
    CASE kind = 0 -> 0
      [] kind = 1 -> Cumulative(options, 1)
      [] kind = 2 -> Cumulative(options, 1) + 1
      [] kind = 3 -> Cumulative(options, 2)
      [] kind = 4 -> Cumulative(options, 3)
      [] kind = 5 -> Cumulative(options, 4) - 1

\* the draws of one run: entity e takes the kind (k + turn * e) mod 6
DrawProfiles == (0..5) \X {0, 1}

\* mission_system, lines 15-32
MissionTarget(e) ==
    LET tp == Template(e)
    IN CASE tp.primary = "Wealth" -> IF tp.curious > 60 THEN "Explore" ELSE "Trade"
         [] tp.primary = "Glory" -> "Hunt"
         [] tp.primary = "Survival" -> "Gather"
         [] tp.primary = "Influence" -> IF tp.social > 50 THEN "Rest" ELSE "Trade"

\* the Social events of lines 36-57, in query order
RECURSIVE MissionNotes(_, _)
MissionNotes(t, e) ==
    IF e = 0 THEN <<>>
    ELSE MissionNotes(t, e - 1)
         \o (IF t % 48 = 0 /\ Template(e).intensity > 50
             THEN << PlainEvent(t, "Social", Template(e).nation) >> ELSE <<>>)

\* the ticks this part follows: the cadence of 3 segments x 3 seasons once
\* and one tick more
MaxMindTicks == 10

\* time.tick += 1; ai_state_transition_system stands in chain 1 and
\* mission_system in chain 2, ordered against each other by nothing
MindTickBegin ==
    /\ epc = "idle"
    /\ tick < MaxMindTicks
    /\ tick' = AdvanceTick(tick)
    /\ epc' = "systems"
    /\ UNCHANGED <<diplo, loopVars, obsVars, config, combatants, fought, fallout, fatigue,
                   world_blocs, behavior, threshold, tilted, logVars, histVars, warVars, schedVars,
                   tracker, nationVars, gridVars>>

\* the threshold entity e draws under a profile, in the state it is in
EntityDraw(e, profile) ==
    ThresholdDraw(WeightedOptions(e, behavior[e], tick, tracker.finished),
                  (profile[1] + profile[2] * e) % 6)

AiStateTransitionRun ==
    /\ epc \in {"systems", "missioned"}
    /\ \E profile \in DrawProfiles :
          LET draw == [e \in Entities |-> EntityDraw(e, profile)]
          IN
          /\ threshold' = draw
          /\ behavior' = [e \in Entities |->
                            Pick(WeightedOptions(e, behavior[e], tick, tracker.finished),
                                 1, draw[e], behavior[e])]
    /\ tilted' = (tilted \/ \E e \in Entities, i \in 1..4 :
                     LET state == TransitionOptions(behavior[e])[i].state
                     IN \/ EpochModifier(EpochForTick(tick).segment, state) # 100
                        \/ SeasonModifier(EpochForTick(tick).season, state) # 100)
    /\ epc' = IF epc = "systems" THEN "minded" ELSE "idle"
    /\ UNCHANGED <<diplo, loopVars, obsVars, config, combatants, fought, fallout, fatigue,
                   world_blocs, tick, logVars, histVars, warVars, schedVars, tracker, nationVars,
                   gridVars>>

MissionRun ==
    /\ epc \in {"systems", "minded"}
    /\ behavior' = [e \in Entities |-> MissionTarget(e)]
    /\ events' = PushAll(events, capacity, MissionNotes(tick, 4))
    /\ epc' = IF epc = "systems" THEN "missioned" ELSE "idle"
    /\ UNCHANGED <<diplo, loopVars, obsVars, config, combatants, fought, fallout, fatigue,
                   world_blocs, tick, threshold, tilted, capacity, histVars, warVars, schedVars,
                   tracker, nationVars, gridVars>>

NextMinds ==
    \/ MindTickBegin
    \/ AiStateTransitionRun
    \/ MissionRun

SpecMinds == Init /\ [][NextMinds]_vars

\* a step of ai_state_transition_system
AiStepped ==
    \/ epc = "systems" /\ epc' = "minded"
    \/ epc = "missioned" /\ epc' = "idle"

\* the states of the table of `state`
Candidates(state) == {TransitionOptions(state)[i].state : i \in 1..4}

\* every entity's new state is a candidate of its previous state's table;
\* Hunt is entered only from Explore or Hunt, Gather only from Explore,
\* Gather or Hunt
EnteredFromItsTable ==
    \A e \in Entities :
        /\ behavior'[e] \in Candidates(behavior[e])
        /\ behavior'[e] = "Hunt" => behavior[e] \in {"Explore", "Hunt"}
        /\ behavior'[e] = "Gather" => behavior[e] \in {"Explore", "Gather", "Hunt"}

\* C34 as stated: after ai_state_transition_system runs, every entity's new
\* state is a candidate of the table of its previous state, and it is the
\* first candidate in table order whose cumulative weight exceeds the drawn
\* threshold.
C34_FirstCandidateAboveTheThreshold ==
    [][AiStepped =>
          /\ EnteredFromItsTable
          /\ \A e \in Entities :
                LET options == WeightedOptions(e, behavior[e], tick, tracker.finished)
                IN \E i \in 1..4 :
                      /\ behavior'[e] = options[i].state
                      /\ Cumulative(options, i) > threshold'[e]
                      /\ \A j \in 1..(i - 1) : Cumulative(options, j) <= threshold'[e]]_vars

\* C34, amended: the new state is a candidate of the table of the previous
\* state, and it is the first candidate in table order whose cumulative
\* weight reaches the drawn threshold (is at least the threshold).
C34_FirstCandidateReachingTheThreshold ==
    [][AiStepped =>
          /\ EnteredFromItsTable
          /\ \A e \in Entities :
                LET options == WeightedOptions(e, behavior[e], tick, tracker.finished)
                IN \E i \in 1..4 :
                      /\ behavior'[e] = options[i].state
                      /\ Cumulative(options, i) >= threshold'[e]
                      /\ \A j \in 1..(i - 1) : Cumulative(options, j) < threshold'[e]]_vars

\* the AI ran first in tick 1, on the seeded states: Rena drew the
\* cumulative weight of her third candidate and went from Explore to Hunt,
\* and Calix drew the weight of his second candidate and went from Idle to
\* Explore
C34_DrewACumulativeWeight ==
    /\ tick = 1 /\ epc = "minded"
    /\ threshold[2] = Cumulative(WeightedOptions(2, "Explore", 1, FALSE), 3)
    /\ behavior[2] = "Hunt"
    /\ threshold[1] = Cumulative(WeightedOptions(1, "Idle", 1, FALSE), 2)
    /\ behavior[1] = "Explore"

\* C35: the time-of-day and season modifiers of the AI candidate weights
\* depend on the segment and season that epoch_for_tick returns: once the
\* whole cadence of three segments and three seasons has been lived through
\* (nine ticks), some AI run has used a modifier other than the neutral 1.0.
C35_ACadenceTiltsSomeWeight ==
    (epc = "idle" /\ tick >= Len(DaySegments) * Len(Seasons)) => tilted

\* C39: in the state published after every tick, each entity's Behavior
\* state equals the mission target computed from its primary goal and its
\* personality alone, whatever the AI transition drew in that tick.
C39_PublishedStateIsTheMissionTarget ==
    (epc = "idle" /\ tick > 0) => \A e \in Entities : behavior[e] = MissionTarget(e)

\* ------------------------------------------------ the trust and fear meters

MaxMeterTicks == 16

\* the metrics the system reads: the nations of WarWorld, or Tera alone
\* ahead of four nations that fell behind
LoneWorld == [n \in Nations |-> IF n = "Tera" THEN WarWorld[n] ELSE WarWorld["Luna"]]
MeterWorlds == {WarWorld, LoneWorld}

\* one tick, as far as diplomacy_system is concerned
MeterTick ==
    /\ tick < MaxMeterTicks
    /\ tick' = AdvanceTick(tick)
    /\ \E world \in MeterWorlds :
          /\ metrics' = [n \in Nations |-> Refreshed(metrics[n], world[n])]
          /\ LET after == DiplomacySystem(diplo, events, capacity, metrics', tick')
             IN diplo' = after.diplo /\ events' = after.events
    /\ UNCHANGED <<apartVars, loopVars, obsVars, config, combatants, fought, fatigue,
                   fallout, capacity, histVars, warVars, schedVars, tracker, civ, npc,
                   extinction_events, gridVars>>

NextMeters == MeterTick

SpecMeters == Init /\ [][NextMeters]_vars

\* C36: in the state published after every tick no value is below zero:
\* every nation's economy, science, culture, diplomacy, military and
\* territory, every civ-state field, and every diplomatic trust and fear
\* meter is non-negative, whatever the power imbalance between the nations
\* (religion is not among the fields this model carries).
C36_NothingBelowZero ==
    /\ \A n \in Nations :
          /\ metrics[n].economy >= 0 /\ metrics[n].science >= 0
          /\ metrics[n].culture >= 0 /\ metrics[n].diplomacy >= 0
          /\ metrics[n].military >= 0
          /\ metrics[n].territory >= 0
          /\ civ[n].cities >= 0 /\ civ[n].happiness >= 0
          /\ civ[n].stability >= 0 /\ civ[n].production >= 0
    /\ \A n \in DOMAIN diplo.trust : diplo.trust[n] >= 0
    /\ \A n \in DOMAIN diplo.fear : diplo.fear[n] >= 0

\* ------------------------------------------------- the relation map at rest

MaxRelationTicks == 78

\* the metrics change only in every WorldSpan-th tick
WorldSpan == 8

\* one tick, as far as diplomacy_system is concerned: the metrics it reads
\* are those of the tick before or, now and then, those of another world
RelationTick ==
    /\ tick < MaxRelationTicks
    /\ tick' = AdvanceTick(tick)
    /\ \E world \in (IF tick % WorldSpan = 0 THEN MeterWorlds ELSE {metrics}) :
          /\ metrics' = [n \in Nations |-> Refreshed(metrics[n], world[n])]
          /\ LET after == DiplomacySystem(diplo, events, capacity, metrics', tick')
             IN diplo' = after.diplo /\ events' = after.events
    /\ UNCHANGED <<apartVars, loopVars, obsVars, config, combatants, fought, fatigue,
                   fallout, capacity, histVars, warVars, schedVars, tracker, civ, npc,
                   extinction_events, gridVars>>

NextRelations == RelationTick

SpecRelations == Init /\ [][NextRelations]_vars

\* C37: the relation map holds exactly one score per unordered nation pair,
\* under the key in normalised order (never both (a,b) and (b,a)), and
\* every stored score stays within [-100, 100] after any number of ticks.
C37_OneBoundedScorePerPair ==
    /\ \A k \in DOMAIN diplo.relations :
          /\ Ordinal(k[1]) < Ordinal(k[2])
          /\ <<k[2], k[1]>> \notin DOMAIN diplo.relations
          /\ diplo.relations[k] >= -1000 /\ diplo.relations[k] <= 1000
    /\ tick > 0 =>
          \A a, b \in Nations :
             a # b => Cardinality({<<a, b>>, <<b, a>>} \cap DOMAIN diplo.relations) = 1

\* both clamps have acted: Tera and Luna, out of balance in every tick,
\* stand at -100 where 10 - 1.5 * 75 is -102.5, and Aqua and Solar, always
\* in balance, at 100
C37_BothClampsActed ==
    /\ tick >= 75
    /\ diplo.relations[<<"Tera", "Luna">>] = -1000
    /\ diplo.relations[<<"Aqua", "Solar">>] = 1000

\* C38: no reachable state contains a destroyed nation: whenever
\* warfare_system is about to run, every nation's territory is larger than
\* the most it can lose in that run (four lost battles of 0.5 each), so the
\* territory <= 0 branch of the loser update is never taken.
C38_NoNationIsEverDestroyed ==
    \A n \in Nations :
        /\ ~metrics[n].is_destroyed
        /\ wpc \in {"phases", "phase1"} => metrics[n].territory > 4 * 50

\* a nation at the floor lost four battles in the warfare run that closed
\* one tick and is about to meet warfare_system again, before the seas are
\* reckoned, with 3.0 left
C38_WarAgainBeforeTheFloor ==
    /\ wpc = "phases"
    /\ \E n \in Nations :
          /\ metrics[n].territory = 300
          /\ Cardinality({i \in WarfareEntries(events) : events[i].rival = n}) = 4

\* ------------------------------------------------ bloc_system (systems/blocs.rs)
\* Strength is in 1e-4.

MaxBlocTicks == 5

\* the metrics the system reads: those of the war world, of the world of
\* one strong nation, or of five nations in a golden age
BoomWorld ==
    [n \in Nations |->
        [economy |-> 200, science |-> 200, culture |-> 120, diplomacy |-> 60,
         military |-> 100]]
BlocWorlds == {WarWorld, LoneWorld, BoomWorld}

\* members of a template: the nations for which gen_bool came out true
BlocMemberDraws == {{}, {"Aqua"}, ResearchMembers, SanctionMembers}

\* research_template, sanction_template
BlocTemplate(kind, members) ==
    [kind |-> kind, leader |-> "None", members |-> members, strength |-> ProgressUnit]

\* "Pick leader as highest science member": the members max_by can return
\* (among equals, the one the set's iteration reaches last), None without
\* members
TopScience(members, ms) ==
    IF members = {} THEN {"None"}
    ELSE {n \in members : \A o \in members : ms[o].science <= ms[n].science}

\* the blocs after entry(kind).or_insert(template) and "Recompute strength"
BlocsRecomputed(wb, ms, templates, leaders) ==
    [kind \in {"ResearchPact", "Sanction"} |->
        LET bloc == OrInsert(wb, kind, templates[kind])
        IN [bloc EXCEPT !.strength = BlocStrength(bloc.members, ms),
                        !.leader = leaders[kind]]]

\* one tick, as far as bloc_system is concerned
BlocTick ==
    /\ tick < MaxBlocTicks
    /\ tick' = AdvanceTick(tick)
    /\ \E world \in BlocWorlds, research \in BlocMemberDraws, sanction \in BlocMemberDraws :
          /\ metrics' = [n \in Nations |-> Refreshed(metrics[n], world[n])]
          /\ LET templates == [kind \in {"ResearchPact", "Sanction"} |->
                                  BlocTemplate(kind, IF kind = "ResearchPact"
                                                     THEN research ELSE sanction)]
                 members(kind) == OrInsert(world_blocs, kind, templates[kind]).members
             IN \E lr \in TopScience(members("ResearchPact"), metrics'),
                   ls \in TopScience(members("Sanction"), metrics') :
                   world_blocs' =
                       BlocsRecomputed(world_blocs, metrics', templates,
                                       [kind \in {"ResearchPact", "Sanction"} |->
                                           IF kind = "ResearchPact" THEN lr ELSE ls])
    /\ UNCHANGED <<mindVars, diplo, loopVars, obsVars, config, combatants, fought, fatigue,
                   fallout, logVars, histVars, warVars, schedVars, tracker, civ, npc,
                   extinction_events, gridVars>>

NextBlocs == BlocTick

SpecBlocs == Init /\ [][NextBlocs]_vars

\* C40: the member sets of the ResearchPact and Sanction blocs are fixed by
\* the first bloc_system run and change in no later tick; a run only
\* recomputes each bloc's strength, which stays within [0, 10], and its
\* leader, which when present is a member of the bloc.
C40_MembersFixedAtTheFirstRun ==
    [][ /\ DOMAIN world_blocs' = {"ResearchPact", "Sanction"}
        /\ \A kind \in DOMAIN world_blocs :
              /\ world_blocs'[kind].members = world_blocs[kind].members
              /\ world_blocs'[kind].kind = world_blocs[kind].kind
        /\ \A kind \in DOMAIN world_blocs' :
              /\ world_blocs'[kind].strength >= 0
              /\ world_blocs'[kind].strength <= 10 * ProgressUnit
              /\ world_blocs'[kind].leader # "None"
                    => world_blocs'[kind].leader \in world_blocs'[kind].members
      ]_vars

\* after several runs: a pact without members, leaderless and without
\* strength, beside a sanction bloc of all five at the cap of 10.0 whose
\* leader is one of them
C40_EmptyPactBesideCappedBloc ==
    /\ tick >= 3
    /\ world_blocs["ResearchPact"].members = {}
    /\ world_blocs["ResearchPact"].leader = "None"
    /\ world_blocs["ResearchPact"].strength = 0
    /\ world_blocs["Sanction"].members = Nations
    /\ world_blocs["Sanction"].strength = 10 * ProgressUnit
    /\ world_blocs["Sanction"].leader \in Nations

====
